---- MODULE Spec2Model ----
(***************************************************************************)
(* Token language filter (turkic_translit/lang_filter.py), the masking     *)
(* pipeline built on it (turkic_translit/web/web_utils.py, mask_russian),  *)
(* and transliteration with cached rule tables (turkic_translit/core.py).  *)
(*                                                                         *)
(* Strings are sequences of characters.  A character is a short string:    *)
(* "ru_x" / "RU_X" a lower / upper case letter of the Russian alphabet,     *)
(* "kz_x" / "KZ_X" a Kazakh letter absent from Russian, a single ASCII     *)
(* letter, digit or punctuation mark for itself, "ESC" for \x1b.           *)
(*                                                                         *)
(* Confidences, thresholds and margins are Python floats.  The model keeps *)
(* binary floating point and its rounding but shortens the significand     *)
(* from 53 bits to MantissaBits: a float is an integer count of 1/256, the *)
(* floats are the counts whose binary expansion spans at most MantissaBits *)
(* bits, and an arithmetic result is rounded to the nearest float, ties to *)
(* the even significand.  256 is 1.0, 128 is 0.5; 0.9, 0.8, 0.95 and 0.10  *)
(* round to 224, 208, 240 and 26.                                          *)
(***************************************************************************)
EXTENDS Integers, Sequences, FiniteSets, TLC

VARIABLES
    token, thr, min_len, lid, stoplist, margin,   \* is_russian_token arguments
    t, labels, confs, result, pc,                 \* is_russian_token locals
    calls,                                        \* lid.predict calls so far
    text, debug,                                  \* mask_russian arguments
    words,                                        \* the tokens text was typed from
    toks, i, masked, dbg, verdicts, out, mpc,     \* mask_russian locals
    files,                                        \* the rule files on disk
    cache,                                        \* the lru_cache of _icu_trans
    req, ncalls,                                  \* the to_latin / to_ipa call
    trans, ar, ptext, ret, tpc,                   \* to_latin / to_ipa locals
    pos, acc,                                     \* the transliterator's pass
    fired,                                        \* the steps of the pass
    \* lru_cache under concurrent callers
    lruCache, made, callers, handed,
    \* the download command _dl
    dlInput, dlMax, dlFilter, dlLid, dlPos, dlLines, dlFile, dlPc,
    \* ensure_fasttext_model
    ftFs, ftPc, ftLog, ftRet, ftStarted, ftCalls,
    \* the filter_russian command
    frLine, frArgs, frPos, frOut, frLog, frPc,
    \* pipeline_transliterate on the shared pipeline
    plMode, plCalls,
    \* logging setup of the command line
    lgEnv, lgArg, lgRoot, lgCached, lgRanAt, lgPc,
    \* download_corpus_to_file
    dcArgs, dcI, dcRemoved, dcTotal, dcNewlines, dcLast, dcPc,
    \* GradioLogHandler
    ghLists, ghCur, ghEmit, ghDone, ghDump, ghDumps

filterVars == <<token, thr, min_len, lid, stoplist, margin, t, labels, confs,
                result, pc, calls>>
maskVars == <<text, debug, words, toks, i, masked, dbg, verdicts, out, mpc>>
translitVars == <<files, cache, req, ncalls, trans, ar, ptext, ret, tpc, pos,
                  acc, fired>>
coreVars == <<filterVars, maskVars, translitVars>>
lruVars == <<lruCache, made, callers, handed>>
dlVars == <<dlInput, dlMax, dlFilter, dlLid, dlPos, dlLines, dlFile, dlPc>>
ftVars == <<ftFs, ftPc, ftLog, ftRet, ftStarted, ftCalls>>
frVars == <<frLine, frArgs, frPos, frOut, frLog, frPc>>
plVars == <<plMode, plCalls>>
lgVars == <<lgEnv, lgArg, lgRoot, lgCached, lgRanAt, lgPc>>
dcVars == <<dcArgs, dcI, dcRemoved, dcTotal, dcNewlines, dcLast, dcPc>>
ghVars == <<ghLists, ghCur, ghEmit, ghDone, ghDump, ghDumps>>
extraVars == <<lruVars, dlVars, ftVars, frVars, plVars, lgVars, dcVars,
               ghVars>>
vars == <<token, thr, min_len, lid, stoplist, margin, t, labels, confs,
          result, pc, calls, text, debug, words, toks, i, masked, dbg,
          verdicts, out, mpc, files, cache, req, ncalls, trans, ar, ptext,
          ret, tpc, pos, acc, fired, lruCache, made, callers, handed,
          dlInput, dlMax, dlFilter, dlLid, dlPos, dlLines, dlFile, dlPc,
          ftFs, ftPc, ftLog, ftRet, ftStarted, ftCalls, frLine, frArgs,
          frPos, frOut, frLog, frPc, plMode, plCalls, lgEnv, lgArg, lgRoot,
          lgCached, lgRanAt, lgPc, dcArgs, dcI, dcRemoved, dcTotal,
          dcNewlines, dcLast, dcPc, ghLists, ghCur, ghEmit, ghDone, ghDump,
          ghDumps>>

\* the variables of the other programs while one program runs
besideLru == <<coreVars, dlVars, ftVars, frVars, plVars, lgVars, dcVars,
                         ghVars>>
besideDl == <<coreVars, lruVars, ftVars, frVars, plVars, lgVars, dcVars,
                        ghVars>>
besideFt == <<coreVars, lruVars, dlVars, frVars, plVars, lgVars, dcVars,
                        ghVars>>
besideFr == <<coreVars, lruVars, dlVars, ftVars, plVars, lgVars, dcVars,
                        ghVars>>
besidePl == <<coreVars, lruVars, dlVars, ftVars, frVars, lgVars, dcVars,
                        ghVars>>
besideLg == <<coreVars, lruVars, dlVars, ftVars, frVars, plVars, dcVars,
                        ghVars>>
besideDc == <<coreVars, lruVars, dlVars, ftVars, frVars, plVars, lgVars,
                        ghVars>>
besideGh == <<coreVars, lruVars, dlVars, ftVars, frVars, plVars, lgVars,
                        dcVars>>

\* the variables of a program that is not running
lruIdle ==
    /\ lruCache = <<>>
    /\ made = <<>>
    /\ callers = <<>>
    /\ handed = <<>>
dlIdle ==
    /\ dlInput = <<>>
    /\ dlMax = <<>>
    /\ dlFilter = <<>>
    /\ dlLid = <<>>
    /\ dlPos = <<>>
    /\ dlLines = <<>>
    /\ dlFile = <<>>
    /\ dlPc = <<>>
ftIdle ==
    /\ ftFs = <<>>
    /\ ftPc = <<>>
    /\ ftLog = <<>>
    /\ ftRet = <<>>
    /\ ftStarted = <<>>
    /\ ftCalls = <<>>
frIdle ==
    /\ frLine = <<>>
    /\ frArgs = <<>>
    /\ frPos = <<>>
    /\ frOut = <<>>
    /\ frLog = <<>>
    /\ frPc = <<>>
plIdle ==
    /\ plMode = <<>>
    /\ plCalls = <<>>
lgIdle ==
    /\ lgEnv = <<>>
    /\ lgArg = <<>>
    /\ lgRoot = <<>>
    /\ lgCached = <<>>
    /\ lgRanAt = <<>>
    /\ lgPc = <<>>
dcIdle ==
    /\ dcArgs = <<>>
    /\ dcI = <<>>
    /\ dcRemoved = <<>>
    /\ dcTotal = <<>>
    /\ dcNewlines = <<>>
    /\ dcLast = <<>>
    /\ dcPc = <<>>
ghIdle ==
    /\ ghLists = <<>>
    /\ ghCur = <<>>
    /\ ghEmit = <<>>
    /\ ghDone = <<>>
    /\ ghDump = <<>>
    /\ ghDumps = <<>>

\* only one program runs
OnlyLru ==
    /\ dlIdle
    /\ ftIdle
    /\ frIdle
    /\ plIdle
    /\ lgIdle
    /\ dcIdle
    /\ ghIdle
OnlyDl ==
    /\ lruIdle
    /\ ftIdle
    /\ frIdle
    /\ plIdle
    /\ lgIdle
    /\ dcIdle
    /\ ghIdle
OnlyFt ==
    /\ lruIdle
    /\ dlIdle
    /\ frIdle
    /\ plIdle
    /\ lgIdle
    /\ dcIdle
    /\ ghIdle
OnlyFr ==
    /\ lruIdle
    /\ dlIdle
    /\ ftIdle
    /\ plIdle
    /\ lgIdle
    /\ dcIdle
    /\ ghIdle
OnlyPl ==
    /\ lruIdle
    /\ dlIdle
    /\ ftIdle
    /\ frIdle
    /\ lgIdle
    /\ dcIdle
    /\ ghIdle
OnlyLg ==
    /\ lruIdle
    /\ dlIdle
    /\ ftIdle
    /\ frIdle
    /\ plIdle
    /\ dcIdle
    /\ ghIdle
OnlyDc ==
    /\ lruIdle
    /\ dlIdle
    /\ ftIdle
    /\ frIdle
    /\ plIdle
    /\ lgIdle
    /\ ghIdle
OnlyGh ==
    /\ lruIdle
    /\ dlIdle
    /\ ftIdle
    /\ frIdle
    /\ plIdle
    /\ lgIdle
    /\ dcIdle

\* none of them runs
ExtraIdle ==
    /\ lruIdle
    /\ dlIdle
    /\ ftIdle
    /\ frIdle
    /\ plIdle
    /\ lgIdle
    /\ dcIdle
    /\ ghIdle

----------------------------------------------------------------------------
(* Bounds *)

\* confidences of the free oracle lie on the grid 0, 64, .., 64 * ConfSteps
ConfSteps == 3
\* bits of a float's significand
MantissaBits == 4
\* min_len ranges over 2 .. MaxMinLen
MaxMinLen == 3
\* a text holds at most MaxTokens tokens
MaxTokens == 3
\* a text to transliterate holds at most MaxText characters
MaxText == 3
\* to_latin and to_ipa are called at most MaxCalls times in all
MaxCalls == 2
\* the threads that call a cached function at the same time
MaxThreads == 2
\* a corpus stream yields at most MaxStream texts
MaxStream == 3
\* --max-lines ranges over 0 .. MaxLines
MaxLines == 2
\* ensure_fasttext_model is called at most MaxEnsure times
MaxEnsure == 2
\* a line given to filter_russian holds at most MaxLine tokens
MaxLine == 2
\* a text given to the pipeline holds at most MaxWords tokens
MaxWords == 2
\* a corpus streamed without max_lines yields at most MaxCorpus sentences
MaxCorpus == 4
\* at most MaxRecords log records are emitted and MaxDumps dumps made
MaxRecords == 3
MaxDumps == 3

----------------------------------------------------------------------------
(* Characters and strings *)

RuLower == {"ru_p", "ru_r", "ru_i", "ru_v", "ru_e", "ru_t", "ru_m", "ru_yo"}
RuUpper == {"RU_P", "RU_M", "RU_YO"}
KzLower == {"kz_ae", "kz_i"}
KzUpper == {"KZ_AE", "KZ_I"}

\* str.lower() on one character
LowerCh(ch) ==
    CASE ch = "RU_P" -> "ru_p"
      [] ch = "RU_M" -> "ru_m"
      [] ch = "RU_YO" -> "ru_yo"
      [] ch = "KZ_AE" -> "kz_ae"
      [] ch = "KZ_I" -> "kz_i"
      [] ch = "H" -> "h"
      [] OTHER -> ch

\* str.lower()
Lower(s) == [j \in 1..Len(s) |-> LowerCh(s[j])]

\* RU_ONLY.fullmatch(s) is not None, RU_ONLY = ^[А-ЯЁа-яё]+$
RU_ONLY(s) == Len(s) >= 1 /\ \A j \in 1..Len(s) : s[j] \in RuUpper \cup RuLower

\* KZ_EXTRA = set("ӘәҒғҚқҢңӨөҰұҮүҺһІі")
KZ_EXTRA == KzLower \cup KzUpper

Privet == <<"ru_p", "ru_r", "ru_i", "ru_v", "ru_e", "ru_t">>
Mir == <<"ru_m", "ru_i", "ru_r">>
Hello == <<"h", "e", "l", "l", "o">>

Pr == <<"ru_p", "ru_r">>
MirUp == <<"RU_M", "ru_i", "ru_r">>
Salem == <<"ru_m", "kz_ae", "ru_r">>
SalemUp == <<"ru_m", "KZ_AE", "ru_r">>
Mixed == <<"ru_m", "ru_i", "h">>
\* "\x1b[31mhi", a word typed with a colour code, and "\x1b[0m", a bare one
Coloured == <<"ESC", "[", "3", "1", "m", "h", "i">>
Reset == <<"ESC", "[", "0", "m">>

\* all sequences over S of length at most n
SeqsUpTo(S, n) == UNION {[1..m -> S] : m \in 0..n}

\* the largest power of two, from q on, that is at most x (x >= q >= 1)
RECURSIVE TopPow(_, _)
TopPow(x, q) == IF 2 * q > x THEN q ELSE TopPow(x, 2 * q)

\* 2^n
RECURSIVE Pow2(_)
Pow2(n) == IF n = 0 THEN 1 ELSE 2 * Pow2(n - 1)

\* the gap between neighbouring floats around x > 0
Ulp(x) ==
    LET top == TopPow(x, 1) IN
    IF top < Pow2(MantissaBits - 1) THEN 1 ELSE top \div Pow2(MantissaBits - 1)

\* x >= 0 rounded to the nearest float, ties to even
RoundPos(x) ==
    IF x = 0 THEN 0
    ELSE LET step == Ulp(x)
             lo == (x \div step) * step
             r == x - lo
         IN  IF 2 * r < step THEN lo
             ELSE IF 2 * r > step THEN lo + step
             ELSE IF (lo \div step) % 2 = 0 THEN lo ELSE lo + step

\* the float a - b
FloatSub(a, b) == IF a - b < 0 THEN 0 - RoundPos(b - a) ELSE RoundPos(a - b)

\* s[:n]
Take(s, n) == SubSeq(s, 1, IF Len(s) < n THEN Len(s) ELSE n)

\* the characters str.strip() and str.split() treat as white space
Whitespace == {" ", "\t", "\n"}

\* str.strip()
RECURSIVE Strip(_)
Strip(s) ==
    IF s = <<>> THEN s
    ELSE IF Head(s) \in Whitespace THEN Strip(Tail(s))
    ELSE IF s[Len(s)] \in Whitespace THEN Strip(SubSeq(s, 1, Len(s) - 1))
    ELSE s

\* a run of white space separates nothing: "a" is the only token of "a  "
RECURSIVE SplitFromNoFlush(_, _, _)
SplitFromNoFlush(s, j, cur) ==
    IF j > Len(s) THEN <<>>
    ELSE IF s[j] \in Whitespace
      THEN (IF cur = <<>> THEN <<>> ELSE <<cur>>) \o SplitFromNoFlush(s, j + 1, <<>>)
    ELSE SplitFromNoFlush(s, j + 1, Append(cur, s[j]))

\* str.split() from position j on, cur the token being read
RECURSIVE SplitFrom(_, _, _)
SplitFrom(s, j, cur) ==
    IF j > Len(s) THEN (IF cur = <<>> THEN <<>> ELSE <<cur>>)
    ELSE IF s[j] \in Whitespace
      THEN (IF cur = <<>> THEN <<>> ELSE <<cur>>) \o SplitFrom(s, j + 1, <<>>)
    ELSE SplitFrom(s, j + 1, Append(cur, s[j]))

\* the last token is lost when no white space follows it
SplitDropsLast(s) == SplitFromNoFlush(s, 1, <<>>)

\* str.split()
Split(s) == SplitFrom(s, 1, <<>>)

\* sep.join(parts)
RECURSIVE Join(_, _)
Join(parts, sep) ==
    IF parts = <<>> THEN <<>>
    ELSE IF Len(parts) = 1 THEN parts[1]
    ELSE parts[1] \o sep \o Join(Tail(parts), sep)

\* the characters of [0-9;]
AnsiParam == {"0", "1", "2", "3", "4", "5", "6", "7", "8", "9", ";"}

\* the first position from j on that holds no [0-9;] character
RECURSIVE SkipParams(_, _)
SkipParams(s, j) ==
    IF j <= Len(s) /\ s[j] \in AnsiParam THEN SkipParams(s, j + 1) ELSE j

\* where a match of \x1b\[[0-9;]*m that starts at j ends, 0 when there is none
AnsiMatchEnd(s, j) ==
    IF j + 1 <= Len(s) /\ s[j] = "ESC" /\ s[j + 1] = "["
      THEN LET e == SkipParams(s, j + 2) IN
           IF e <= Len(s) /\ s[e] = "m" THEN e ELSE 0
      ELSE 0

RECURSIVE AnsiSubFrom(_, _)
AnsiSubFrom(s, j) ==
    IF j > Len(s) THEN <<>>
    ELSE LET e == AnsiMatchEnd(s, j) IN
         IF e > 0 THEN AnsiSubFrom(s, e + 1)
         ELSE <<s[j]>> \o AnsiSubFrom(s, j + 1)

\* _ansi_re.sub("", s)
AnsiSub(s) == AnsiSubFrom(s, 1)

----------------------------------------------------------------------------
(* The classifier oracle: lid.predict(text, k) -> (labels, confs), or raises *)

LabelRu == "__label__ru"
LabelEn == "__label__en"
Labels == {LabelRu, LabelEn}

\* k of the filter's predict call
PredictK == 3
\* k of the debug predict call of mask_russian
DebugK == 1
\* default of the margin parameter, 0.10
DefaultMargin == 26

ConfGrid == {64 * n : n \in 0..ConfSteps}

Reply(l, c) == [raise |-> FALSE, labels |-> l, confs |-> c]
RaiseReply == [raise |-> TRUE, labels |-> <<>>, confs |-> <<>>]

\* every answer a FastTextLike object may give to predict(text, k): at most k
\* labels, at most as many confidences as labels, or an exception
AnyReplies(k) ==
    {Reply(l, c) : l \in SeqsUpTo(Labels, k), c \in SeqsUpTo(ConfGrid, k)}

\* MockFastText.predict with the responses of test_web_integration
MockReply(txt, k) ==
    CASE txt = Privet -> Reply(Take(<<LabelRu>>, k), Take(<<224>>, k))
      [] txt = Mir -> Reply(Take(<<LabelRu>>, k), Take(<<208>>, k))
      [] txt = Hello -> Reply(Take(<<LabelEn>>, k), Take(<<240>>, k))
      [] OTHER -> Reply(<<LabelEn>>, <<64>>)

\* the oracles of the model: "any" answers anything, "mock" is the test stub,
\* "second" ranks ru a close second, "empty" returns no label, "down" raises,
\* "missing" is a model file that cannot be loaded
Oracles == {"mock", "second", "empty", "down", "missing"}

\* the answers oracle o may give to predict(txt, k)
Predict(o, txt, k) ==
    CASE o = "any" ->
            {r \in AnyReplies(k) : Len(r.confs) <= Len(r.labels)} \cup {RaiseReply}
      [] o = "mock" -> {MockReply(txt, k)}
      [] o = "second" -> {Reply(Take(<<LabelEn, LabelRu>>, k), Take(<<144, 128>>, k))}
      [] o = "empty" -> {Reply(<<>>, <<>>)}
      [] OTHER -> {RaiseReply}

----------------------------------------------------------------------------
(* is_russian_token *)

\* off by one: len(token) < min_len - 1
TooShortOffByOne(tok, n) == Len(tok) < n - 1

\* len(token) < min_len
TooShort(tok, n) == Len(tok) < n

\* truthiness test inverted: not stoplist and t in stoplist
InStoplistInverted(s, sl) == sl = {} /\ s \in sl

\* stoplist and t in stoplist  (None and the empty set are both falsy: the
\* absent stoplist is the empty set)
InStoplist(s, sl) == sl # {} /\ s \in sl

\* only the first letter is looked at
HasKzLetterFirstOnly(s) == Len(s) >= 1 /\ s[1] \in KZ_EXTRA

\* any(ch in KZ_EXTRA for ch in t)
HasKzLetter(s) == \E j \in 1..Len(s) : s[j] \in KZ_EXTRA

\* not labels or not confs
NoScores(l, c) == Len(l) = 0 \/ Len(c) = 0

\* strict comparison: confs[0] > thr
RankOneStrict(l, c, th) == l[1] = LabelRu /\ c[1] > th

\* comparison reversed: confs[0] <= thr
RankOneReversed(l, c, th) == l[1] = LabelRu /\ c[1] <= th

\* labels[0] == "__label__ru" and confs[0] >= thr
RankOne(l, c, th) == l[1] = LabelRu /\ c[1] >= th

\* labels.index("__label__ru")
IndexRu(l) == CHOOSE j \in 1..Len(l) : l[j] = LabelRu /\ \A m \in 1..(j - 1) : l[m] # LabelRu

\* "__label__ru" in labels[1:], then the bounds check and the two comparisons
CloseSecond(l, c, th, mg) ==
    /\ \E j \in 2..Len(l) : l[j] = LabelRu
    /\ LET idx == IndexRu(l) IN
         /\ idx <= Len(c)
         /\ c[idx] >= th
         /\ c[idx] >= FloatSub(c[1], mg)

\* the threshold test dropped: RU_ONLY.fullmatch(t) is not None
OrthFallbackAnyThr(s, th) == RU_ONLY(s)

\* the fallback switched off: always False
OrthFallbackNever(s, th) == FALSE

\* thr == 0.0 and RU_ONLY.fullmatch(t) is not None
OrthFallback(s, th) == th = 0 /\ RU_ONLY(s)

\* the decision once predict has answered
Decision(s, th, mg, l, c) ==
    IF NoScores(l, c) THEN FALSE
    ELSE IF RankOne(l, c, th) THEN TRUE
    ELSE IF CloseSecond(l, c, th, mg) THEN TRUE
    ELSE OrthFallback(s, th)

\* whether the gates let the token through to the classifier
PassesGates(tok, n, sl) ==
    /\ ~TooShort(tok, n)
    /\ ~InStoplist(Lower(tok), sl)
    /\ ~HasKzLetter(Lower(tok))

\* the value is_russian_token returns when predict answers (l, c)
IsRussianToken(tok, th, n, l, c, sl, mg) ==
    PassesGates(tok, n, sl) /\ Decision(Lower(tok), th, mg, l, c)

CheckLen ==
    /\ pc = "start"
    /\ IF TooShort(token, min_len)
         THEN /\ result' = FALSE
              /\ pc' = "done"
              /\ UNCHANGED t
         ELSE /\ t' = Lower(token)
              /\ pc' = "stoplist"
              /\ UNCHANGED result
    /\ UNCHANGED <<token, thr, min_len, lid, stoplist, margin, labels, confs, calls>>
    /\ UNCHANGED maskVars
    /\ UNCHANGED translitVars
    /\ UNCHANGED extraVars

CheckStoplist ==
    /\ pc = "stoplist"
    /\ IF InStoplist(t, stoplist)
         THEN result' = FALSE /\ pc' = "done"
         ELSE pc' = "kz" /\ UNCHANGED result
    /\ UNCHANGED <<token, thr, min_len, lid, stoplist, margin, t, labels, confs, calls>>
    /\ UNCHANGED maskVars
    /\ UNCHANGED translitVars
    /\ UNCHANGED extraVars

CheckKz ==
    /\ pc = "kz"
    /\ IF HasKzLetter(t)
         THEN result' = FALSE /\ pc' = "done"
         ELSE pc' = "predict" /\ UNCHANGED result
    /\ UNCHANGED <<token, thr, min_len, lid, stoplist, margin, t, labels, confs, calls>>
    /\ UNCHANGED maskVars
    /\ UNCHANGED translitVars
    /\ UNCHANGED extraVars

\* the token handed to predict without lowercasing: lid.predict(token, k=3)
CallPredictRaw ==
    /\ pc = "predict"
    /\ calls' = Append(calls, [text |-> token, k |-> PredictK])
    /\ \E r \in Predict(lid, t, PredictK) :
         IF r.raise
           THEN pc' = "raised" /\ UNCHANGED <<labels, confs>>
           ELSE pc' = "decide" /\ labels' = r.labels /\ confs' = r.confs
    /\ UNCHANGED <<token, thr, min_len, lid, stoplist, margin, t, result>>
    /\ UNCHANGED maskVars
    /\ UNCHANGED translitVars
    /\ UNCHANGED extraVars

\* the call wrapped in try/except: a failing predict counts as "not Russian"
CallPredictSwallows ==
    /\ pc = "predict"
    /\ calls' = Append(calls, [text |-> t, k |-> PredictK])
    /\ \E r \in Predict(lid, t, PredictK) :
         IF r.raise
           THEN pc' = "done" /\ result' = FALSE /\ UNCHANGED <<labels, confs>>
           ELSE pc' = "decide" /\ labels' = r.labels /\ confs' = r.confs
                /\ UNCHANGED result
    /\ UNCHANGED <<token, thr, min_len, lid, stoplist, margin, t>>
    /\ UNCHANGED maskVars
    /\ UNCHANGED translitVars
    /\ UNCHANGED extraVars

\* labels, confs = lid.predict(t, k=3), normalised to lists
CallPredict ==
    /\ pc = "predict"
    /\ calls' = Append(calls, [text |-> t, k |-> PredictK])
    /\ \E r \in Predict(lid, t, PredictK) :
         IF r.raise
           THEN pc' = "raised" /\ UNCHANGED <<labels, confs>>
           ELSE pc' = "decide" /\ labels' = r.labels /\ confs' = r.confs
    /\ UNCHANGED <<token, thr, min_len, lid, stoplist, margin, t, result>>
    /\ UNCHANGED maskVars
    /\ UNCHANGED translitVars
    /\ UNCHANGED extraVars

Decide ==
    /\ pc = "decide"
    /\ result' = Decision(t, thr, margin, labels, confs)
    /\ pc' = "done"
    /\ UNCHANGED <<token, thr, min_len, lid, stoplist, margin, t, labels, confs, calls>>
    /\ UNCHANGED maskVars
    /\ UNCHANGED translitVars
    /\ UNCHANGED extraVars

----------------------------------------------------------------------------
(* mask_russian *)

\* "<RU>"
SentinelRU == <<"<", "R", "U", ">">>

\* lbls[0][9:], the label without its "__label__" prefix
Winner(l) == IF l = LabelRu THEN "ru" ELSE "en"

NoOutput == [kind |-> "none", body |-> <<>>, records |-> <<>>]

\* the returned string: the masked tokens joined by single spaces, followed in
\* debug mode by the JSON dump of the debug records, ANSI colour codes removed.
\* json.dumps writes \x1b as the six characters \u001b and the dump is
\* preceded by a newline, so no match of the pattern touches the dump: the
\* dump is kept as the list of records it encodes.
MaskedOutput(parts, dbgOn, recs) ==
    [kind |-> "masked",
     body |-> AnsiSub(Join(parts, <<" ">>)),
     records |-> IF dbgOn THEN recs ELSE <<>>]

\* the message the except clause returns
ErrorOutput == [kind |-> "error", body |-> <<>>, records |-> <<>>]

\* lid = _langid_singleton().model; masked, dbg = [], [];
\* text.strip().split()
MaskStart ==
    /\ mpc = "start"
    /\ IF lid = "missing"
         THEN /\ mpc' = "except"
              /\ UNCHANGED <<toks, i, masked, dbg>>
         ELSE /\ toks' = Split(Strip(text))
              /\ i' = 1
              /\ masked' = <<>>
              /\ dbg' = <<>>
              /\ mpc' = "loop"
    /\ UNCHANGED <<text, debug, words, verdicts, out>>
    /\ UNCHANGED filterVars
    /\ UNCHANGED translitVars
    /\ UNCHANGED extraVars

\* ru = is_russian_token(tok, thr=thr, min_len=min_len, lid=lid,
\*                       stoplist=None, margin=margin): the call
MaskCall ==
    /\ mpc = "loop"
    /\ i <= Len(toks)
    /\ token' = toks[i]
    /\ stoplist' = {}
    /\ t' = <<>>
    /\ labels' = <<>>
    /\ confs' = <<>>
    /\ result' = FALSE
    /\ pc' = "start"
    /\ mpc' = "call"
    /\ UNCHANGED <<thr, min_len, lid, margin, calls>>
    /\ UNCHANGED <<text, debug, words, toks, i, masked, dbg, verdicts, out>>
    /\ UNCHANGED translitVars
    /\ UNCHANGED extraVars

\* the tokens are appended in reverse: masked.insert(0, ...)
MaskAppendFront ==
    /\ mpc = "call"
    /\ pc = "done"
    /\ masked' = <<IF result THEN SentinelRU ELSE toks[i]>> \o masked
    /\ verdicts' = Append(verdicts, result)
    /\ pc' = "idle"
    /\ IF debug
         THEN mpc' = "debug" /\ UNCHANGED i
         ELSE mpc' = "loop" /\ i' = i + 1
    /\ UNCHANGED <<token, thr, min_len, lid, stoplist, margin, t, labels, confs,
                   result, calls>>
    /\ UNCHANGED <<text, debug, words, toks, dbg, out>>
    /\ UNCHANGED translitVars
    /\ UNCHANGED extraVars

\* the call returns; masked.append("<RU>" if ru else tok)
MaskAppend ==
    /\ mpc = "call"
    /\ pc = "done"
    /\ masked' = Append(masked, IF result THEN SentinelRU ELSE toks[i])
    /\ verdicts' = Append(verdicts, result)
    /\ pc' = "idle"
    /\ IF debug
         THEN mpc' = "debug" /\ UNCHANGED i
         ELSE mpc' = "loop" /\ i' = i + 1
    /\ UNCHANGED <<token, thr, min_len, lid, stoplist, margin, t, labels, confs,
                   result, calls>>
    /\ UNCHANGED <<text, debug, words, toks, dbg, out>>
    /\ UNCHANGED translitVars
    /\ UNCHANGED extraVars

\* the call raises: the exception leaves the loop for the except clause
MaskRaised ==
    /\ mpc = "call"
    /\ pc = "raised"
    /\ pc' = "idle"
    /\ mpc' = "except"
    /\ UNCHANGED <<token, thr, min_len, lid, stoplist, margin, t, labels, confs,
                   result, calls>>
    /\ UNCHANGED <<text, debug, words, toks, i, masked, dbg, verdicts, out>>
    /\ UNCHANGED translitVars
    /\ UNCHANGED extraVars

\* a record is appended for the masked tokens only: if debug and ru
MaskDebugOnlyRu ==
    /\ mpc = "debug"
    /\ IF result
         THEN /\ calls' = Append(calls, [text |-> Lower(toks[i]), k |-> DebugK])
              /\ \E r \in Predict(lid, Lower(toks[i]), DebugK) :
                   IF r.raise \/ Len(r.labels) = 0 \/ Len(r.confs) = 0
                     THEN /\ mpc' = "except"
                          /\ UNCHANGED <<dbg, i>>
                     ELSE /\ dbg' = Append(dbg, [tok |-> toks[i],
                                                 ru |-> result,
                                                 winner |-> Winner(r.labels[1]),
                                                 conf |-> r.confs[1]])
                          /\ i' = i + 1
                          /\ mpc' = "loop"
         ELSE /\ i' = i + 1
              /\ mpc' = "loop"
              /\ UNCHANGED <<calls, dbg>>
    /\ UNCHANGED <<token, thr, min_len, lid, stoplist, margin, t, labels, confs,
                   result, pc>>
    /\ UNCHANGED <<text, debug, words, toks, masked, verdicts, out>>
    /\ UNCHANGED translitVars
    /\ UNCHANGED extraVars

\* if debug: lbls, confs = lid.predict(tok.lower(), k=1); dbg.append({...})
\* lbls[0] and confs[0] raise IndexError on an empty answer
MaskDebug ==
    /\ mpc = "debug"
    /\ calls' = Append(calls, [text |-> Lower(toks[i]), k |-> DebugK])
    /\ \E r \in Predict(lid, Lower(toks[i]), DebugK) :
         IF r.raise \/ Len(r.labels) = 0 \/ Len(r.confs) = 0
           THEN /\ mpc' = "except"
                /\ UNCHANGED <<dbg, i>>
           ELSE /\ dbg' = Append(dbg, [tok |-> toks[i],
                                       ru |-> result,
                                       winner |-> Winner(r.labels[1]),
                                       conf |-> r.confs[1]])
                /\ i' = i + 1
                /\ mpc' = "loop"
    /\ UNCHANGED <<token, thr, min_len, lid, stoplist, margin, t, labels, confs,
                   result, pc>>
    /\ UNCHANGED <<text, debug, words, toks, masked, verdicts, out>>
    /\ UNCHANGED translitVars
    /\ UNCHANGED extraVars

\* out = " ".join(masked); the debug dump; return _ansi_re.sub("", out)
MaskJoin ==
    /\ mpc = "loop"
    /\ i > Len(toks)
    /\ out' = MaskedOutput(masked, debug, dbg)
    /\ mpc' = "returned"
    /\ UNCHANGED <<text, debug, words, toks, i, masked, dbg, verdicts>>
    /\ UNCHANGED filterVars
    /\ UNCHANGED translitVars
    /\ UNCHANGED extraVars

\* except Exception: return the error message
MaskExcept ==
    /\ mpc = "except"
    /\ out' = ErrorOutput
    /\ mpc' = "returned"
    /\ UNCHANGED <<text, debug, words, toks, i, masked, dbg, verdicts>>
    /\ UNCHANGED filterVars
    /\ UNCHANGED translitVars
    /\ UNCHANGED extraVars

----------------------------------------------------------------------------
(* Transliteration: core.py, _icu_trans, to_latin and to_ipa               *)
(*                                                                         *)
(* Letters are "a", "b", "c", "x", "y" and "q" (a letter of the Arabic     *)
(* script); "circ" is U+0302 COMBINING CIRCUMFLEX ACCENT, "dot" is U+0323  *)
(* COMBINING DOT BELOW, "a_circ" is U+00E2, "a_dot" is U+1EA1,             *)
(* "a_dot_circ" is U+1EAD, "b_dot" is U+1E05, "c_circ" is U+0109, "y_circ" *)
(* is U+0177 and "y_dot" is U+1EF5; no other composite of these letters    *)
(* and marks exists.                                                       *)

\* unicodedata.combining(ch)
CombiningClass(ch) ==
    CASE ch = "circ" -> 230
      [] ch = "dot" -> 220
      [] OTHER -> 0

\* the full canonical decomposition of a character
Decompose(ch) ==
    CASE ch = "a_circ" -> <<"a", "circ">>
      [] ch = "a_dot" -> <<"a", "dot">>
      [] ch = "a_dot_circ" -> <<"a", "dot", "circ">>
      [] ch = "b_dot" -> <<"b", "dot">>
      [] ch = "c_circ" -> <<"c", "circ">>
      [] ch = "y_circ" -> <<"y", "circ">>
      [] ch = "y_dot" -> <<"y", "dot">>
      [] OTHER -> <<ch>>

RECURSIVE Decomposed(_)
Decomposed(s) ==
    IF s = <<>> THEN <<>> ELSE Decompose(Head(s)) \o Decomposed(Tail(s))

\* canonical ordering: adjacent combining marks are exchanged while the first
\* has the greater combining class
OutOfOrder(s) ==
    {j \in 1..(Len(s) - 1) :
        /\ CombiningClass(s[j + 1]) > 0
        /\ CombiningClass(s[j]) > CombiningClass(s[j + 1])}

RECURSIVE CanonicalOrder(_)
CanonicalOrder(s) ==
    IF OutOfOrder(s) = {}
      THEN s
      ELSE LET j == CHOOSE j \in OutOfOrder(s) : \A m \in OutOfOrder(s) : j <= m IN
           CanonicalOrder([s EXCEPT ![j] = s[j + 1], ![j + 1] = s[j]])

\* the primary composites
Composites ==
    {<<"a", "circ", "a_circ">>, <<"a", "dot", "a_dot">>,
     <<"a_dot", "circ", "a_dot_circ">>, <<"b", "dot", "b_dot">>,
     <<"c", "circ", "c_circ">>, <<"y", "circ", "y_circ">>,
     <<"y", "dot", "y_dot">>}

HasComposite(x, y) == \E c \in Composites : c[1] = x /\ c[2] = y
Composite(x, y) == (CHOOSE c \in Composites : c[1] = x /\ c[2] = y)[3]

\* canonical composition of a canonically ordered string: b is the part
\* composed so far, st the place in b of the last starter (0: none); a
\* character combines with the starter unless a character between them has a
\* combining class at least as high
RECURSIVE ComposeFrom(_, _, _, _)
ComposeFrom(s, j, b, st) ==
    IF j > Len(s) THEN b
    ELSE LET ch == s[j]
             blocked == /\ Len(b) > st
                        /\ CombiningClass(b[Len(b)]) >= CombiningClass(ch)
         IN IF st > 0 /\ ~blocked /\ HasComposite(b[st], ch)
              THEN ComposeFrom(s, j + 1, [b EXCEPT ![st] = Composite(b[st], ch)], st)
              ELSE ComposeFrom(s, j + 1, Append(b, ch),
                               IF CombiningClass(ch) = 0 THEN Len(b) + 1 ELSE st)

\* ud.normalize("NFC", s)
NFC(s) == ComposeFrom(CanonicalOrder(Decomposed(s)), 1, <<>>, 0)

\* a rule of a rule file:  ante { key } post > out ;  anchor "start" is a
\* leading ^ (the match begins at the start of the text), dir is the
\* operator: ">" forward, "<" reverse, "<>" both
Rule(ante, key, post, o, anchor, dir) ==
    [ante |-> ante, key |-> key, post |-> post, out |-> o, anchor |-> anchor,
     dir |-> dir]

\* icu.Transliterator.createFromRules(name, ptext, 0): direction 0 is
\* UTRANS_FORWARD, the rules that apply forward are kept in their order
Compile(source) == SelectSeq(source, LAMBDA r : r.dir # "<")

IsSuffix(x, s) ==
    /\ Len(x) <= Len(s)
    /\ SubSeq(s, Len(s) - Len(x) + 1, Len(s)) = x

\* rule r matches at place p of s, b being the text left of the cursor: the
\* transliterator rewrites the text in place, so the context before the key is
\* read from what is already rewritten
Matches(r, b, s, p) ==
    /\ p + Len(r.key) + Len(r.post) - 1 <= Len(s)
    /\ SubSeq(s, p, p + Len(r.key) - 1) = r.key
    /\ SubSeq(s, p + Len(r.key), p + Len(r.key) + Len(r.post) - 1) = r.post
    /\ IsSuffix(r.ante, b)
    /\ (r.anchor = "start" => Len(b) = Len(r.ante))

\* the matching rule with the longest key wins
LongestMatch(rules, b, s, p) ==
    LET M == {k \in 1..Len(rules) : Matches(rules[k], b, s, p)} IN
    IF M = {} THEN 0
    ELSE CHOOSE k \in M :
           \A m \in M : \/ Len(rules[m].key) < Len(rules[k].key)
                        \/ (Len(rules[m].key) = Len(rules[k].key) /\ k <= m)

\* the rule applied at p: the first of the table that matches, 0 when none
FirstMatch(rules, b, s, p) ==
    LET M == {k \in 1..Len(rules) : Matches(rules[k], b, s, p)} IN
    IF M = {} THEN 0 ELSE CHOOSE k \in M : \A m \in M : k <= m

\* the cursor also passes the context after the key
ConsumedWithContext(r) == Len(r.key) + Len(r.post)

\* how far the cursor moves when r is applied: past the key
Consumed(r) == Len(r.key)

\* a character no rule matches is skipped
CopyNothing(s, p) == <<>>

\* a character no rule matches stays as it is
CopyThrough(s, p) == <<s[p]>>

\* trans.transliterate(s): one pass from left to right
RECURSIVE TransliterateFrom(_, _, _, _)
TransliterateFrom(rules, s, p, b) ==
    IF p > Len(s) THEN b
    ELSE LET k == FirstMatch(rules, b, s, p) IN
         IF k = 0
           THEN TransliterateFrom(rules, s, p + 1, b \o CopyThrough(s, p))
           ELSE TransliterateFrom(rules, s, p + Consumed(rules[k]),
                                  b \o rules[k].out)

Transliterate(rules, s) == TransliterateFrom(rules, s, 1, <<>>)

\* the names of the rule files: f"{lang}_lat2023.rules", f"{lang}_ipa.rules"
\* for lang "kk", and "ar_lat.rules"
LatinFile == "kk_lat2023.rules"
IpaFile == "kk_ipa.rules"
ArabicFile == "ar_lat.rules"
FileNames == {LatinFile, IpaFile, ArabicFile}

\* rule files that rely on the order of their rules: a rule with a context
\* before a shorter plain one, a longer key after a shorter one, a reverse
\* rule among the forward ones
OrderedSources ==
    [n \in FileNames |->
       CASE n = LatinFile ->
              <<Rule(<<>>, <<"a">>, <<"b">>, <<"x">>, "none", ">"),
                Rule(<<>>, <<"c">>, <<>>, <<"a">>, "none", "<"),
                Rule(<<>>, <<"a">>, <<>>, <<"b">>, "none", ">"),
                Rule(<<>>, <<"a", "b">>, <<>>, <<"y">>, "none", ">"),
                Rule(<<>>, <<"b">>, <<>>, <<"y">>, "start", ">"),
                Rule(<<"c">>, <<"b">>, <<>>, <<"x">>, "none", ">"),
                Rule(<<>>, <<"b">>, <<>>, <<"c">>, "none", "<>")>>
         [] n = IpaFile ->
              <<Rule(<<>>, <<"a">>, <<>>, <<"a">>, "none", ">"),
                Rule(<<>>, <<"a", "a">>, <<>>, <<"y">>, "none", ">"),
                Rule(<<>>, <<"b">>, <<>>, <<"dot">>, "none", ">"),
                Rule(<<>>, <<"q">>, <<>>, <<"a", "circ">>, "none", ">")>>
         [] n = ArabicFile ->
              <<Rule(<<>>, <<"q">>, <<>>, <<"a", "circ">>, "none", ">")>>]

\* rule files with the longer keys first, and rules whose output is composed
LongestFirstSources ==
    [n \in FileNames |->
       CASE n = LatinFile ->
              <<Rule(<<>>, <<"a", "b">>, <<>>, <<"y">>, "none", ">"),
                Rule(<<>>, <<"a">>, <<>>, <<"b">>, "none", ">"),
                Rule(<<"y">>, <<"b">>, <<"b">>, <<>>, "none", ">"),
                Rule(<<>>, <<"b">>, <<>>, <<"c">>, "none", ">"),
                Rule(<<>>, <<"a_circ">>, <<>>, <<"x">>, "none", ">")>>
         [] n = IpaFile ->
              <<Rule(<<>>, <<"a", "circ">>, <<>>, <<"a_dot">>, "none", ">"),
                Rule(<<>>, <<"b">>, <<"b">>, <<"b", "b">>, "start", ">"),
                Rule(<<>>, <<"b">>, <<>>, <<"a">>, "none", ">")>>
         [] n = ArabicFile ->
              <<Rule(<<>>, <<"q">>, <<"q">>, <<"a_circ">>, "none", ">"),
                Rule(<<>>, <<"q">>, <<>>, <<"a", "dot">>, "none", ">")>>]

RuleSources == {OrderedSources, LongestFirstSources}

NotCached == [cached |-> FALSE, rules |-> <<>>]

\* the cache returns whatever table it holds, whatever the name asked for
IcuTransAnyEntry(name) ==
    IF \E n \in FileNames : cache[n].cached
      THEN cache[CHOOSE n \in FileNames : cache[n].cached].rules
      ELSE Compile(files[name])

\* _icu_trans(name) under lru_cache: the table compiled at the first call for
\* the name, compiled now when there was none
IcuTrans(name) ==
    IF cache[name].cached THEN cache[name].rules ELSE Compile(files[name])

\* the cache after _icu_trans(name)
Cached(name) == [cache EXCEPT ![name] = [cached |-> TRUE, rules |-> IcuTrans(name)]]

\* the input characters and the texts
InputChars == {"a", "b", "q", "circ", "dot"}
Texts == SeqsUpTo(InputChars, MaxText)

\* the languages asked for: two with rule files, one without
Langs == {"kk", "ar", "xx"}

NoRequest ==
    [fn |-> "none", text |-> <<>>, include_arabic |-> FALSE, lang |-> "none"]

\* filename.split("_", 1) on the stem of a rule file: lang, fmt
StemParts(n) ==
    CASE n = LatinFile -> <<"kk", "lat2023">>
      [] n = IpaFile -> <<"kk", "ipa">>
      [] n = ArabicFile -> <<"ar", "lat">>

\* if fmt == "lat2023" or fmt == "lat": fmt = "latin"
NormalFormat(fmt) == IF fmt \in {"lat2023", "lat"} THEN "latin" ELSE fmt

\* get_supported_languages(): the formats of every language with a rule file
Supported ==
    [l \in {StemParts(n)[1] : n \in FileNames} |->
        {NormalFormat(StemParts(n)[2]) :
            n \in {m \in FileNames : StemParts(m)[1] = l}}]

\* the format a function needs
Format(fn) == IF fn = "to_latin" THEN "latin" ELSE "ipa"

\* the languages in sorted order
LangOrder == <<"ar", "kk", "xx">>

\* sorted(available): the languages that have the format
Available(fmt) ==
    SelectSeq(LangOrder, LAMBDA l : l \in DOMAIN Supported /\ fmt \in Supported[l])

\* ValueError(f"{Latin|IPA} transliteration not supported for '{lang}'.
\* Available languages: {', '.join(sorted(available))}")
NotSupportedError(fn, l) == <<"ValueError", Format(fn), l>> \o Available(Format(fn))

\* the rule files named l_fmt.rules
FilesOf(l, fmt) == {n \in FileNames : StemParts(n) = <<l, fmt>>}

\* rule_file of the call: to_latin takes the first that exists of
\* {lang}_lat2023.rules, {lang}_lat.rules, {lang}_latin.rules; to_ipa takes
\* {lang}_ipa.rules
RuleFile(fn) ==
    IF fn = "to_latin"
      THEN LET possible_rules == <<"lat2023", "lat", "latin">>
               found == {k \in 1..3 : FilesOf(req.lang, possible_rules[k]) # {}}
               first == CHOOSE k \in found : \A m \in found : k <= m
           IN CHOOSE n \in FilesOf(req.lang, possible_rules[first]) : TRUE
      ELSE CHOOSE n \in FilesOf(req.lang, "ipa") : TRUE

\* the table of the pass under way
PassRules == IF tpc = "arpass" THEN ar ELSE trans

\* the variables outside a transliteration call
TranslitIdle ==
    /\ files = <<>>
    /\ cache = <<>>
    /\ req = NoRequest
    /\ ncalls = 0
    /\ trans = <<>>
    /\ ar = <<>>
    /\ ptext = <<>>
    /\ ret = <<>>
    /\ tpc = "none"
    /\ pos = 0
    /\ acc = <<>>
    /\ fired = <<>>

\* to_latin(text, lang, include_arabic) is called
ToLatin ==
    /\ tpc = "idle"
    /\ ncalls < MaxCalls
    /\ \E s \in Texts, ia \in BOOLEAN, l \in Langs :
         /\ req' = [fn |-> "to_latin", text |-> s, include_arabic |-> ia,
                    lang |-> l]
         /\ ptext' = s
    /\ tpc' = "check"
    /\ UNCHANGED <<files, cache, ncalls, trans, ar, ret, pos, acc, fired>>
    /\ UNCHANGED <<filterVars, maskVars>>
    /\ UNCHANGED extraVars

\* to_ipa(text, lang) is called
ToIpa ==
    /\ tpc = "idle"
    /\ ncalls < MaxCalls
    /\ \E s \in Texts, l \in Langs :
         /\ req' = [fn |-> "to_ipa", text |-> s, include_arabic |-> FALSE,
                    lang |-> l]
         /\ ptext' = s
    /\ tpc' = "check"
    /\ UNCHANGED <<files, cache, ncalls, trans, ar, ret, pos, acc, fired>>
    /\ UNCHANGED <<filterVars, maskVars>>
    /\ UNCHANGED extraVars

\* the formats of the language are looked up without asking whether the
\* language is known: if "latin" not in supported[lang]
CheckSupportedBare ==
    /\ tpc = "check"
    /\ IF req.lang \notin DOMAIN Supported
         THEN tpc' = "raised" /\ ret' = <<"KeyError", req.lang>>
         ELSE IF Format(req.fn) \in Supported[req.lang]
                THEN tpc' = "trans" /\ UNCHANGED ret
                ELSE tpc' = "raised" /\ ret' = NotSupportedError(req.fn, req.lang)
    /\ UNCHANGED <<files, cache, req, ncalls, trans, ar, ptext, pos, acc, fired>>
    /\ UNCHANGED <<filterVars, maskVars>>
    /\ UNCHANGED extraVars

\* if lang not in supported or fmt not in supported[lang]: raise ValueError
CheckSupported ==
    /\ tpc = "check"
    /\ IF req.lang \notin DOMAIN Supported
          \/ Format(req.fn) \notin Supported[req.lang]
         THEN tpc' = "raised" /\ ret' = NotSupportedError(req.fn, req.lang)
         ELSE tpc' = "trans" /\ UNCHANGED ret
    /\ UNCHANGED <<files, cache, req, ncalls, trans, ar, ptext, pos, acc, fired>>
    /\ UNCHANGED <<filterVars, maskVars>>
    /\ UNCHANGED extraVars

\* trans = _icu_trans(rule_file)
GetTrans ==
    /\ tpc = "trans"
    /\ trans' = IcuTrans(RuleFile(req.fn))
    /\ cache' = Cached(RuleFile(req.fn))
    /\ pos' = 1
    /\ acc' = <<>>
    /\ fired' = <<>>
    /\ tpc' = IF req.include_arabic THEN "ar" ELSE "pass"
    /\ UNCHANGED <<files, req, ncalls, ar, ptext, ret>>
    /\ UNCHANGED <<filterVars, maskVars>>
    /\ UNCHANGED extraVars

\* if include_arabic: ar = _icu_trans("ar_lat.rules")
GetAr ==
    /\ tpc = "ar"
    /\ ar' = IcuTrans(ArabicFile)
    /\ cache' = Cached(ArabicFile)
    /\ tpc' = "arpass"
    /\ UNCHANGED <<files, req, ncalls, trans, ptext, ret, pos, acc, fired>>
    /\ UNCHANGED <<filterVars, maskVars>>
    /\ UNCHANGED extraVars

\* one step of transliterate: the first matching rule rewrites its key, or the
\* character at the cursor is kept
Step ==
    /\ tpc \in {"arpass", "pass"}
    /\ pos <= Len(ptext)
    /\ LET k == FirstMatch(PassRules, acc, ptext, pos)
           piece == IF k = 0 THEN CopyThrough(ptext, pos) ELSE PassRules[k].out
           next == IF k = 0 THEN pos + 1 ELSE pos + Consumed(PassRules[k])
       IN /\ acc' = acc \o piece
          /\ pos' = next
          /\ fired' = Append(fired, [at |-> pos, rule |-> k, emit |-> piece,
                                     next |-> next])
    /\ UNCHANGED <<files, cache, req, ncalls, trans, ar, ptext, ret, tpc>>
    /\ UNCHANGED <<filterVars, maskVars>>
    /\ UNCHANGED extraVars

\* the text is normalised after the pre-pass too: ud.normalize("NFC", text)
ArDoneNormalized ==
    /\ tpc = "arpass"
    /\ pos > Len(ptext)
    /\ ptext' = NFC(acc)
    /\ pos' = 1
    /\ acc' = <<>>
    /\ fired' = <<>>
    /\ tpc' = "pass"
    /\ UNCHANGED <<files, cache, req, ncalls, trans, ar, ret>>
    /\ UNCHANGED <<filterVars, maskVars>>
    /\ UNCHANGED extraVars

\* text = ar.transliterate(text) has returned
ArDone ==
    /\ tpc = "arpass"
    /\ pos > Len(ptext)
    /\ ptext' = acc
    /\ pos' = 1
    /\ acc' = <<>>
    /\ fired' = <<>>
    /\ tpc' = "pass"
    /\ UNCHANGED <<files, cache, req, ncalls, trans, ar, ret>>
    /\ UNCHANGED <<filterVars, maskVars>>
    /\ UNCHANGED extraVars

\* the output of the last pass is returned as it is: return out
ReturnRaw ==
    /\ tpc = "pass"
    /\ pos > Len(ptext)
    /\ ret' = acc
    /\ tpc' = "returned"
    /\ UNCHANGED <<files, cache, req, ncalls, trans, ar, ptext, pos, acc, fired>>
    /\ UNCHANGED <<filterVars, maskVars>>
    /\ UNCHANGED extraVars

\* out = trans.transliterate(text) has returned;
\* return ud.normalize("NFC", out)
Return ==
    /\ tpc = "pass"
    /\ pos > Len(ptext)
    /\ ret' = NFC(acc)
    /\ tpc' = "returned"
    /\ UNCHANGED <<files, cache, req, ncalls, trans, ar, ptext, pos, acc, fired>>
    /\ UNCHANGED <<filterVars, maskVars>>
    /\ UNCHANGED extraVars

\* the call is over and its locals are gone; the caller may call again
Finish ==
    /\ tpc \in {"returned", "raised"}
    /\ ncalls' = ncalls + 1
    /\ req' = NoRequest
    /\ trans' = <<>>
    /\ ar' = <<>>
    /\ ptext' = <<>>
    /\ ret' = <<>>
    /\ pos' = 1
    /\ acc' = <<>>
    /\ fired' = <<>>
    /\ tpc' = "idle"
    /\ UNCHANGED <<files, cache>>
    /\ UNCHANGED <<filterVars, maskVars>>
    /\ UNCHANGED extraVars

----------------------------------------------------------------------------
(* is_russian_token called directly, as the unit tests do *)

FilterTokens == {Pr, Mir, MirUp, Privet, Salem, SalemUp, Mixed, Hello}
Stoplists == {{}, {Mir, Privet}}
Margins == {DefaultMargin, 56, 64}
MinLens == 2..MaxMinLen

Init ==
    /\ token \in FilterTokens
    /\ thr \in ConfGrid
    /\ min_len \in MinLens
    /\ lid \in {"any", "down"}
    /\ stoplist \in Stoplists
    /\ margin \in Margins
    /\ t = <<>>
    /\ labels = <<>>
    /\ confs = <<>>
    /\ result = FALSE
    /\ pc = "start"
    /\ calls = <<>>
    /\ text = <<>>
    /\ debug = FALSE
    /\ words = <<>>
    /\ toks = <<>>
    /\ i = 0
    /\ masked = <<>>
    /\ dbg = <<>>
    /\ verdicts = <<>>
    /\ out = NoOutput
    /\ mpc = "none"
    /\ TranslitIdle
    /\ ExtraIdle

Next == CheckLen \/ CheckStoplist \/ CheckKz \/ CallPredict \/ Decide

Spec == Init /\ [][Next]_vars

----------------------------------------------------------------------------
(* mask_russian called on a typed text *)

MaskTokens == {Privet, Mir, Hello, Coloured, Reset, SentinelRU}

\* how the tokens are spaced: single spaces, or runs of white space with
\* white space around the text
Spacings == {[pad |-> <<>>, sep |-> <<" ">>],
             [pad |-> <<" ">>, sep |-> <<"\t", " ">>]}

\* the text that holds the tokens ws spaced as sp says
Typed(ws, sp) == sp.pad \o Join(ws, sp.sep) \o sp.pad

MaskThrs == {0, 128}
MaskMinLens == {3, 4}

MaskInit ==
    /\ \E ws \in SeqsUpTo(MaskTokens, MaxTokens), sp \in Spacings :
         /\ words = ws
         /\ text = Typed(ws, sp)
    /\ debug \in BOOLEAN
    /\ thr \in MaskThrs
    /\ min_len \in MaskMinLens
    /\ margin = DefaultMargin
    /\ lid \in Oracles
    /\ token = <<>>
    /\ stoplist = {}
    /\ t = <<>>
    /\ labels = <<>>
    /\ confs = <<>>
    /\ result = FALSE
    /\ pc = "idle"
    /\ calls = <<>>
    /\ toks = <<>>
    /\ i = 0
    /\ masked = <<>>
    /\ dbg = <<>>
    /\ verdicts = <<>>
    /\ out = NoOutput
    /\ mpc = "start"
    /\ TranslitIdle
    /\ ExtraIdle

MaskNext ==
    \/ MaskStart
    \/ MaskCall
    \/ CheckLen
    \/ CheckStoplist
    \/ CheckKz
    \/ CallPredict
    \/ Decide
    \/ MaskAppend
    \/ MaskRaised
    \/ MaskDebug
    \/ MaskJoin
    \/ MaskExcept

MaskSpec == MaskInit /\ [][MaskNext]_vars

----------------------------------------------------------------------------
(* to_latin and to_ipa called one after the other in one process *)

TranslitInit ==
    /\ files \in RuleSources
    /\ cache = [n \in FileNames |-> NotCached]
    /\ req = NoRequest
    /\ ncalls = 0
    /\ trans = <<>>
    /\ ar = <<>>
    /\ ptext = <<>>
    /\ ret = <<>>
    /\ tpc = "idle"
    /\ pos = 1
    /\ acc = <<>>
    /\ fired = <<>>
    /\ token = <<>>
    /\ thr = 0
    /\ min_len = 0
    /\ lid = "none"
    /\ stoplist = {}
    /\ margin = 0
    /\ t = <<>>
    /\ labels = <<>>
    /\ confs = <<>>
    /\ result = FALSE
    /\ pc = "idle"
    /\ calls = <<>>
    /\ text = <<>>
    /\ debug = FALSE
    /\ words = <<>>
    /\ toks = <<>>
    /\ i = 0
    /\ masked = <<>>
    /\ dbg = <<>>
    /\ verdicts = <<>>
    /\ out = NoOutput
    /\ mpc = "none"
    /\ ExtraIdle

TranslitNext ==
    \/ ToLatin
    \/ ToIpa
    \/ CheckSupported
    \/ GetTrans
    \/ GetAr
    \/ Step
    \/ ArDone
    \/ Return
    \/ Finish

TranslitSpec == TranslitInit /\ [][TranslitNext]_vars

----------------------------------------------------------------------------
(* Properties of is_russian_token *)

\* the gates, stated on the arguments
GateLen == Len(token) < min_len
GateStop == Lower(token) \in stoplist
GateKz == \E j \in 1..Len(token) : token[j] \in KzLower \cup KzUpper
GatesOpen == ~GateLen /\ ~GateStop /\ ~GateKz

\* predict has answered with at least one label and one confidence
Answered == pc = "done" /\ Len(calls) = 1
Scored == Len(labels) >= 1 /\ Len(confs) >= 1
AcceptedByRank ==
    /\ Scored
    /\ \/ RankOne(labels, confs, thr)
       \/ CloseSecond(labels, confs, thr, margin)

\* C1: a token shorter than min_len is never Russian: the call returns False
\* without reaching the classifier, for every thr, margin and stoplist.
C1_ShortTokenRejected ==
    GateLen => /\ pc \in {"start", "done"}
               /\ pc = "done" => result = FALSE

C1_Witness ==
    /\ pc = "done"
    /\ token = Pr /\ min_len = 3 /\ thr = 0
    /\ RU_ONLY(Lower(token))
    /\ result = FALSE

\* C2: a token of length >= min_len whose lowercase form is in the stoplist is
\* never Russian, whatever thr and margin are.
C2_StoplistRejected ==
    (~GateLen /\ GateStop) =>
        /\ pc \in {"start", "stoplist", "done"}
        /\ pc = "done" => result = FALSE

C2_Witness ==
    /\ pc = "done"
    /\ token = MirUp /\ stoplist = {Mir, Privet} /\ thr = 0
    /\ result = FALSE

\* C3: a token of length >= min_len holding a Kazakh-only letter, in either
\* case, is never Russian; the classifier is not reached.
C3_KazakhLetterRejected ==
    (~GateLen /\ GateKz) =>
        /\ pc \in {"start", "stoplist", "kz", "done"}
        /\ pc = "done" => result = FALSE

C3_Witness ==
    /\ pc = "done"
    /\ token = SalemUp /\ thr = 0 /\ stoplist = {}
    /\ result = FALSE

\* C4: past the gates, with ru ranked first at confidence c, the result is
\* True when c >= thr, and False when thr > 0 and c < thr.
C4_RankOneInclusive ==
    (Answered /\ Scored /\ labels[1] = LabelRu) =>
        /\ confs[1] >= thr => result = TRUE
        /\ (thr > 0 /\ confs[1] < thr) => result = FALSE

C4_Witness ==
    /\ Answered /\ Scored
    /\ labels[1] = LabelRu /\ confs[1] = thr /\ thr > 0
    /\ result = TRUE

\* ru is returned exactly once, at rank j
RuOnlyAt(j) ==
    /\ j <= Len(labels)
    /\ \A m \in 1..Len(labels) : labels[m] = LabelRu <=> m = j

\* C5: past the gates, with thr > 0 and ru at rank 2 or 3 with confidence
\* c_ru, the result is True exactly when c_ru >= thr and c_1 - c_ru <= margin.
C5_CloseSecondExact ==
    \A j \in 2..3 :
        (Answered /\ thr > 0 /\ RuOnlyAt(j) /\ Len(confs) >= j) =>
            (result = TRUE <=> (confs[j] >= thr /\ confs[1] - confs[j] <= margin))

\* the same with the gap c_1 - c_ru computed as a float
C5_CloseSecondFloatGap ==
    \A j \in 2..3 :
        (Answered /\ thr > 0 /\ RuOnlyAt(j) /\ Len(confs) >= j) =>
            (result = TRUE <=>
                (confs[j] >= thr /\ FloatSub(confs[1], confs[j]) <= margin))

\* C6 as stated: past the gates and not accepted by either rank rule, thr = 0
\* and a purely Russian-alphabet token give True for every oracle answer.
C6_FallbackForAnyAnswer ==
    (Answered /\ ~AcceptedByRank /\ thr = 0 /\ RU_ONLY(Lower(token))) =>
        result = TRUE

\* C6: the same, for every oracle answer that holds at least one label and
\* one confidence.
C6_FallbackWhenScored ==
    (Answered /\ Scored /\ ~AcceptedByRank /\ thr = 0 /\ RU_ONLY(Lower(token))) =>
        result = TRUE

C6_Witness ==
    /\ Answered /\ Scored /\ ~AcceptedByRank
    /\ thr = 0 /\ token = Privet
    /\ \A m \in 1..Len(labels) : labels[m] # LabelRu
    /\ result = TRUE

\* the token holds a Russian letter and a character that is not one
MixedScript ==
    /\ \E j \in 1..Len(token) : token[j] \in RuLower \cup RuUpper
    /\ \E j \in 1..Len(token) : token[j] \notin RuLower \cup RuUpper

\* C7: with thr > 0 a True result needs the ru label among the returned ones
\* with confidence >= thr; with thr = 0 a mixed-script token that neither
\* rank rule accepts is not Russian.
C7_OrthographyOnlyAtZero ==
    /\ (pc = "done" /\ thr > 0 /\ result = TRUE) =>
           \E j \in 1..Len(labels) :
               labels[j] = LabelRu /\ j <= Len(confs) /\ confs[j] >= thr
    /\ (Answered /\ thr = 0 /\ MixedScript /\ ~AcceptedByRank) => result = FALSE

C7_Witness ==
    /\ Answered /\ Scored
    /\ thr > 0 /\ RU_ONLY(Lower(token))
    /\ \A m \in 1..Len(labels) : labels[m] # LabelRu
    /\ result = FALSE

\* C8: predict is not called while a gate is closed; past the gates it is
\* called exactly once, with the lowercased token and k = 3, before the
\* decision.
C8_GatesBeforeClassifier ==
    LET once == <<[text |-> Lower(token), k |-> 3]>> IN
    /\ pc \in {"start", "stoplist", "kz", "predict"} => calls = <<>>
    /\ pc \in {"decide", "raised"} => calls = once
    /\ pc = "done" => calls = (IF GatesOpen THEN once ELSE <<>>)
    /\ ~GatesOpen => pc \notin {"predict", "decide", "raised"}

C8_Witness ==
    /\ pc = "done"
    /\ token = MirUp /\ stoplist = {}
    /\ calls = <<[text |-> Mir, k |-> 3]>>

\* C9: for a fixed token, oracle answer, min_len, margin and stoplist, a True
\* result at thr stays True at every lower threshold.
C9_MonotoneInThreshold ==
    (pc = "done" /\ result = TRUE) =>
        \A th \in ConfGrid :
            th <= thr =>
                IsRussianToken(token, th, min_len, labels, confs, stoplist, margin)

C9_Witness ==
    /\ pc = "done" /\ result = TRUE
    /\ thr >= 64
    /\ \E th \in ConfGrid :
         /\ th > thr
         /\ ~IsRussianToken(token, th, min_len, labels, confs, stoplist, margin)

----------------------------------------------------------------------------
(* Properties of mask_russian *)

SingleSpaced == [pad |-> <<>>, sep |-> <<" ">>]

\* mask_russian has returned its masked text, debug off
MaskedReturn == mpc = "returned" /\ ~debug /\ out.kind = "masked"

\* the oracle answers every predict call
OracleAnswers == lid \in {"mock", "second", "empty"}

\* what is_russian_token returns for the j-th typed token
VerdictOf(j) ==
    LET r == CHOOSE r \in Predict(lid, Lower(words[j]), 3) : TRUE IN
    IsRussianToken(words[j], thr, min_len, r.labels, r.confs, {}, margin)

Gated(w) ==
    \/ Len(w) < min_len
    \/ \E j \in 1..Len(w) : w[j] \in KzLower \cup KzUpper

\* what mask_russian returns for the typed text with debug off: the error
\* message when the classifier is missing or fails on a token, else the pieces
DebugOffReturn ==
    IF lid = "missing" \/ (lid = "down" /\ \E j \in 1..Len(words) : ~Gated(words[j]))
      THEN ErrorOutput
      ELSE [kind |-> "masked",
            body |-> Typed([j \in 1..Len(words) |->
                              IF VerdictOf(j) THEN SentinelRU
                                              ELSE AnsiSub(words[j])],
                           SingleSpaced),
            records |-> <<>>]

\* DebugOffReturn is the return value of the run with debug off
DebugOffReference == (mpc = "returned" /\ ~debug) => out = DebugOffReturn

\* C11: debug mode does not alter the primary output: what mask_russian
\* returns with debug on, up to the appended debug records, is what it returns
\* with debug off for the same text, thr, min_len, margin and oracle.
C11_DebugSameOutput ==
    (mpc = "returned" /\ debug) =>
        /\ out.kind = DebugOffReturn.kind
        /\ out.body = DebugOffReturn.body

\* the i-th whitespace-delimited token of the returned masked text is "<RU>"
MaskedTokenIsRU(j) ==
    /\ j <= Len(Split(out.body))
    /\ Split(out.body)[j] = SentinelRU

\* mask_russian has returned its masked text with the debug records
DebugReturn == mpc = "returned" /\ debug /\ out.kind = "masked"

C13_PredictFailureSurfaces ==
    /\ pc = "raised" => (GatesOpen /\ Len(calls) = 1 /\ labels = <<>>)
    /\ (lid = "down" /\ GatesOpen) => pc \notin {"decide", "done"}

C13_Witness ==
    /\ lid = "down"
    /\ token = Privet /\ min_len = 3 /\ stoplist = {}
    /\ pc = "raised"
    /\ calls = <<[text |-> Privet, k |-> PredictK]>>

\* C14: when the classifier cannot be loaded, or predict fails for a token,
\* mask_russian does not return a value: the error reaches the caller.
C14_ClassifierErrorPropagates ==
    (lid = "missing" \/ (lid = "down" /\ calls # <<>>)) => mpc # "returned"

----------------------------------------------------------------------------
(* Properties of the rule tables, to_latin and to_ipa *)

\* the rules of a source that apply forward, in the order they are declared
RECURSIVE ForwardRules(_)
ForwardRules(source) ==
    IF source = <<>> THEN <<>>
    ELSE (IF Head(source).dir \in {">", "<>"} THEN <<Head(source)>> ELSE <<>>)
           \o ForwardRules(Tail(source))

\* a pass is under way or over, and fired is its log
InPass == tpc \in {"arpass", "pass", "returned"}

\* the rules declared in the file of the pass
Declared ==
    ForwardRules(files[IF tpc = "arpass" THEN ArabicFile ELSE RuleFile(req.fn)])

\* what the first n steps of the pass have written
RECURSIVE Emitted(_)
Emitted(n) == IF n = 0 THEN <<>> ELSE Emitted(n - 1) \o fired[n].emit

\* the k-th declared rule applies at step n: its key is at the cursor, the
\* context after the key follows it in the text, the context before the key
\* ends what is written so far, an anchored rule has nothing else before it
Applies(k, n) ==
    LET r == Declared[k]
        p == fired[n].at
        left == Emitted(n - 1)
        covered == r.key \o r.post
    IN /\ p + Len(covered) - 1 <= Len(ptext)
       /\ \A j \in 1..Len(covered) : ptext[p + j - 1] = covered[j]
       /\ Len(r.ante) <= Len(left)
       /\ \A j \in 1..Len(r.ante) :
            left[Len(left) - Len(r.ante) + j] = r.ante[j]
       /\ (r.anchor = "start" => Len(left) = Len(r.ante))

\* some rule declared after the k-th applies at step n with a longer key
LongerLaterRule(k, n) ==
    \E m \in (k + 1)..Len(Declared) :
        Applies(m, n) /\ Len(Declared[m].key) > Len(Declared[k].key)

C16_PassAdvances ==
    InPass =>
        /\ Len(fired) <= Len(ptext)
        /\ pos = (IF fired = <<>> THEN 1 ELSE fired[Len(fired)].next)
        /\ pos <= Len(ptext) + 1
        /\ \A n \in 1..Len(fired) :
             /\ fired[n].at = (IF n = 1 THEN 1 ELSE fired[n - 1].next)
             /\ fired[n].next > fired[n].at
             /\ ({k \in 1..Len(Declared) : Applies(k, n)} = {}) =>
                   /\ fired[n].emit = <<ptext[fired[n].at]>>
                   /\ fired[n].next = fired[n].at + 1
        /\ acc = Emitted(Len(fired))
        /\ tpc = "returned" => pos = Len(ptext) + 1
        /\ (tpc = "returned" /\ req.text = <<>>) => (fired = <<>> /\ ret = <<>>)

C16_Witness ==
    /\ tpc = "returned"
    /\ files = OrderedSources
    /\ req = [fn |-> "to_latin", text |-> <<"circ", "b", "dot">>,
              include_arabic |-> FALSE, lang |-> "kk"]
    /\ Len(fired) = 3
    /\ fired[1].rule = 0 /\ fired[2].rule # 0 /\ fired[3].rule = 0
    /\ ret = <<"circ", "c", "dot">>

\* C17: a rule that is applied consumes the characters of its key and no
\* other: the cursor moves past the key, the context after the key is scanned
\* next, and what the rule wrote is not scanned again: with the rules a > b
\* and b > c the text "a" becomes "b", and with  a } b > x  before them "ab"
\* becomes "xc".
C17_KeyConsumedOnce ==
    /\ InPass =>
         \A n \in 1..Len(fired) :
             fired[n].rule # 0 =>
                 /\ fired[n].rule \in 1..Len(Declared)
                 /\ fired[n].next = fired[n].at + Len(Declared[fired[n].rule].key)
                 /\ Len(Emitted(n)) =
                      Len(Emitted(n - 1)) + Len(Declared[fired[n].rule].out)
    /\ (tpc = "returned" /\ files = OrderedSources /\ req.fn = "to_latin"
          /\ req.lang = "kk" /\ ~req.include_arabic) =>
         /\ req.text = <<"a">> => ret = <<"b">>
         /\ req.text = <<"a", "b">> => (Len(fired) = 2 /\ ret = <<"x", "c">>)

C17_Witness ==
    /\ tpc = "returned"
    /\ files = LongestFirstSources
    /\ req = [fn |-> "to_latin", text |-> <<"a", "b", "b">>,
              include_arabic |-> FALSE, lang |-> "kk"]
    /\ Len(fired) = 2
    /\ fired[1].rule = 1 /\ fired[1].next = 3
    /\ fired[2].rule = 4
    /\ ret = <<"y", "c">>

\* the text the main table is applied to: the text of the call, rewritten by
\* the Arabic table when the pre-pass is asked for, not normalised
MainInput ==
    IF req.include_arabic
      THEN Transliterate(ForwardRules(files[ArabicFile]), req.text)
      ELSE req.text

\* C18: to_latin with the Arabic pre-pass returns
\* NFC(main_table(arabic_table(text))), the main table reading the raw output
\* of the pre-pass; without the pre-pass it returns NFC(main_table(text));
\* to_ipa returns NFC(ipa_table(text)).
C18_NormalizedOnceAfterLastPass ==
    /\ tpc \in {"pass", "returned"} => ptext = MainInput
    /\ tpc = "returned" =>
         /\ acc = Transliterate(ForwardRules(files[RuleFile(req.fn)]), MainInput)
         /\ ret = NFC(acc)
    /\ (tpc = "returned" /\ req.fn = "to_ipa") =>
         ret = NFC(Transliterate(ForwardRules(files[IpaFile]), req.text))

C18_Witness ==
    /\ tpc = "returned"
    /\ files = OrderedSources
    /\ req = [fn |-> "to_latin", text |-> <<"q">>, include_arabic |-> TRUE, lang |-> "kk"]
    /\ ptext = <<"a", "circ">>
    /\ NFC(ptext) # ptext
    /\ ret = <<"b", "circ">>

\* C19: normalize is idempotent, normalize(normalize(x)) = normalize(x) for
\* the texts handed to and the outputs produced by the tables, and a string
\* returned by to_latin or to_ipa is one NFC leaves unchanged.
C19_NormalizeIdempotent ==
    /\ NFC(NFC(ptext)) = NFC(ptext)
    /\ NFC(NFC(acc)) = NFC(acc)
    /\ tpc = "returned" => NFC(ret) = ret

C19_Witness ==
    /\ tpc = "returned"
    /\ files = OrderedSources
    /\ req = [fn |-> "to_ipa", text |-> <<"q", "b">>, include_arabic |-> FALSE, lang |-> "kk"]
    /\ acc = <<"a", "circ", "dot">>
    /\ ret = <<"a_dot_circ">>
    /\ NFC(ret) = ret

HasRules(l, fmt) == <<l, fmt>> \in {<<"kk", "latin">>, <<"kk", "ipa">>, <<"ar", "latin">>}

\* the format the call asks for
Asked == IF req.fn = "to_latin" THEN "latin" ELSE "ipa"

\* the list that ends the message of the error
Enumerated == SubSeq(ret, 4, Len(ret))

\* C21 as stated: the error of an unsupported (language, representation) pair
\* enumerates what is available for that language.
C21_ErrorListsFormatsOfLanguage ==
    tpc = "raised" =>
        /\ ret[1] = "ValueError"
        /\ Enumerated = SelectSeq(<<"ipa", "latin">>,
                                  LAMBDA f : HasRules(req.lang, f))

\* C21: to_latin or to_ipa with a (language, representation) pair that has no
\* rule file raises ValueError naming the representation, the language asked
\* for and the sorted languages for which that representation is available;
\* no table is fetched and no pass is made, and a call that gets as far as
\* fetching a table asked for a supported pair.
C21_UnsupportedRaises ==
    /\ tpc = "raised" =>
         /\ ~HasRules(req.lang, Asked)
         /\ ret = <<"ValueError", Asked, req.lang>>
                    \o SelectSeq(<<"ar", "kk", "xx">>, LAMBDA l : HasRules(l, Asked))
         /\ trans = <<>> /\ ar = <<>> /\ fired = <<>> /\ acc = <<>>
    /\ tpc \in {"trans", "ar", "arpass", "pass", "returned"} =>
         HasRules(req.lang, Asked)

C21_Witness ==
    /\ tpc = "raised"
    /\ req.fn = "to_ipa" /\ req.lang = "ar"
    /\ ret = <<"ValueError", "ipa", "ar", "kk">>
    /\ ncalls = 1
    /\ cache[ArabicFile].cached

----------------------------------------------------------------------------
(* The lazily built caches under concurrent callers: _icu_trans (core.py)  *)
(* and _langid_singleton (web_utils.py) are functions wrapped by           *)
(* functools.lru_cache.  The wrapper looks the key up, calls the function  *)
(* on a miss without holding a lock, and stores the result unless the key  *)
(* was stored while the function ran; it returns the function's result.    *)

\* filter, masking and transliteration are not running
CoreIdle ==
    /\ token = <<>> /\ thr = 0 /\ min_len = 0 /\ lid = "none"
    /\ stoplist = {} /\ margin = 0 /\ t = <<>> /\ labels = <<>>
    /\ confs = <<>> /\ result = FALSE /\ pc = "idle" /\ calls = <<>>
    /\ text = <<>> /\ debug = FALSE /\ words = <<>> /\ toks = <<>>
    /\ i = 0 /\ masked = <<>> /\ dbg = <<>> /\ verdicts = <<>>
    /\ out = NoOutput /\ mpc = "none"
    /\ TranslitIdle

Threads == 1..MaxThreads

\* the keys: the rule file names of _icu_trans, the empty argument list of
\* _langid_singleton
LruKeys == FileNames \cup {"()"}

NoObject == <<"none", 0>>

\* a call of a cached function begins: the wrapper finds the key (a hit: the
\* cached object is returned) or does not (a miss)
LruLookup(c) ==
    /\ callers[c].pc = "idle"
    /\ \E k \in LruKeys :
         IF lruCache[k] # NoObject
           THEN /\ handed' = [handed EXCEPT ![k] = @ \cup {lruCache[k]}]
                /\ UNCHANGED callers
           ELSE /\ callers' = [callers EXCEPT ![c] = [pc |-> "miss", key |-> k,
                                                      obj |-> NoObject]]
                /\ UNCHANGED handed
    /\ UNCHANGED <<lruCache, made>>
    /\ UNCHANGED besideLru

\* the wrapped function runs: createFromRules compiles a table,
\* FastTextLangID() loads the model; each run makes a new object
LruCall(c) ==
    /\ callers[c].pc = "miss"
    /\ made' = [made EXCEPT ![callers[c].key] = @ + 1]
    /\ callers' = [callers EXCEPT ![c].pc = "made",
                                  ![c].obj = <<callers[c].key,
                                               made[callers[c].key] + 1>>]
    /\ UNCHANGED <<lruCache, handed>>
    /\ UNCHANGED besideLru

\* the wrapper stores the result unless the key is in the cache by now, and
\* returns the result of its own call
LruStore(c) ==
    /\ callers[c].pc = "made"
    /\ lruCache' = IF lruCache[callers[c].key] = NoObject
                     THEN [lruCache EXCEPT ![callers[c].key] = callers[c].obj]
                     ELSE lruCache
    /\ handed' = [handed EXCEPT ![callers[c].key] = @ \cup {callers[c].obj}]
    /\ callers' = [callers EXCEPT ![c] = [pc |-> "idle", key |-> "none",
                                          obj |-> NoObject]]
    /\ UNCHANGED made
    /\ UNCHANGED besideLru

LruInit ==
    /\ lruCache = [k \in LruKeys |-> NoObject]
    /\ made = [k \in LruKeys |-> 0]
    /\ callers = [c \in Threads |-> [pc |-> "idle", key |-> "none",
                                      obj |-> NoObject]]
    /\ handed = [k \in LruKeys |-> {}]
    /\ CoreIdle
    /\ OnlyLru

LruNext == \E c \in Threads : LruLookup(c) \/ LruCall(c) \/ LruStore(c)

LruSpec == LruInit /\ [][LruNext]_vars

\* C22: the caches are initialized once: for every rule file the table is
\* compiled at most once and the classifier model is loaded at most once,
\* every caller of a key receives the same object, and the cached object is
\* never replaced.
C22_InitializedOnce ==
    \A k \in LruKeys :
        /\ made[k] <= 1
        /\ Cardinality(handed[k]) <= 1
        /\ lruCache[k] \in {NoObject, <<k, 1>>}

\* the cached object is not replaced once stored
LruNeverReplaced ==
    [][\A k \in LruKeys : lruCache[k] # NoObject => lruCache'[k] = lruCache[k]]_vars

----------------------------------------------------------------------------
(* The download command (cli/download_corpus.py, _dl): the texts a driver  *)
(* yields are written to the output file, each followed by a newline,      *)
(* optionally filtered by predicted language and limited in number.  "NL"  *)
(* is the newline character.                                               *)

\* texts a driver yields: stream_oscar yields whole documents, stripped at
\* both ends, which keep their inner newlines
DlTexts == {<<"a">>, <<"b">>, <<"a", "NL", "b">>}

DlLabels == {"ru", "kk"}

\* text.replace("\n", " ")
ReplaceNewlines(s) == [n \in 1..Len(s) |-> IF s[n] = "NL" THEN " " ELSE s[n]]

\* what the language-ID model is asked about
DlAsked == {ReplaceNewlines(s) : s \in DlTexts}

\* the streams of at most n texts
RECURSIVE Streams(_)
Streams(n) ==
    IF n = 0 THEN {<<>>}
    ELSE Streams(n - 1) \cup
         {Append(s, x) : s \in {z \in Streams(n - 1) : Len(z) = n - 1},
                         x \in DlTexts}

\* the filter lets every text through
DlPassesAll(s) == TRUE

\* post_lid.predict(text.replace("\n", " ")) != filter_langid skips the text
DlPasses(s) == dlFilter = "None" \/ dlLid[ReplaceNewlines(s)] = dlFilter

\* the generator has a next text, and the limit is reached: break
DlBreak ==
    /\ dlPc = "loop"
    /\ dlPos < Len(dlInput)
    /\ dlMax.given /\ dlLines >= dlMax.n
    /\ dlPc' = "done"
    /\ UNCHANGED <<dlInput, dlMax, dlFilter, dlLid, dlPos, dlLines, dlFile>>
    /\ UNCHANGED besideDl

\* one turn of the loop below the limit: the text is skipped by the filter,
\* or written with a newline and counted
DlIterate ==
    /\ dlPc = "loop"
    /\ dlPos < Len(dlInput)
    /\ ~(dlMax.given /\ dlLines >= dlMax.n)
    /\ dlPos' = dlPos + 1
    /\ IF DlPasses(dlInput[dlPos + 1])
         THEN /\ dlFile' = dlFile \o dlInput[dlPos + 1] \o <<"NL">>
              /\ dlLines' = dlLines + 1
         ELSE UNCHANGED <<dlFile, dlLines>>
    /\ UNCHANGED <<dlInput, dlMax, dlFilter, dlLid, dlPc>>
    /\ UNCHANGED besideDl

\* the generator is exhausted: the file is closed
DlExhausted ==
    /\ dlPc = "loop"
    /\ dlPos = Len(dlInput)
    /\ dlPc' = "done"
    /\ UNCHANGED <<dlInput, dlMax, dlFilter, dlLid, dlPos, dlLines, dlFile>>
    /\ UNCHANGED besideDl

DlInit ==
    /\ dlInput \in Streams(MaxStream)
    /\ dlMax \in {[given |-> FALSE, n |-> 0]} \cup
                  {[given |-> TRUE, n |-> n] : n \in 0..MaxLines}
    /\ dlFilter \in {"None"} \cup DlLabels
    /\ dlLid \in [DlAsked -> DlLabels]
    /\ dlPos = 0
    /\ dlLines = 0
    /\ dlFile = <<>>
    /\ dlPc = "loop"
    /\ CoreIdle
    /\ OnlyDl

DlNext == DlBreak \/ DlIterate \/ DlExhausted

DlSpec == DlInit /\ [][DlNext]_vars

\* the lines of a file: the pieces that end in a newline
RECURSIVE FileLines(_, _)
FileLines(f, line) ==
    IF f = <<>> THEN <<>>
    ELSE IF Head(f) = "NL" THEN <<line>> \o FileLines(Tail(f), <<>>)
    ELSE FileLines(Tail(f), Append(line, Head(f)))

\* the streamed texts that pass the filter, in stream order
DlPassing == SelectSeq(dlInput, DlPasses)

DlMin(a, b) == IF a < b THEN a ELSE b

RECURSIVE DlFlatten(_)
DlFlatten(ss) ==
    IF ss = <<>> THEN <<>> ELSE Head(ss) \o <<"NL">> \o DlFlatten(Tail(ss))

\* C23: with --max-lines N the file holds the first min(N, number of streamed
\* lines that pass the filter) lines, in stream order, one per line, never
\* more than N; without it the file holds every streamed line that passes.
C23_FirstNLines ==
    dlPc = "done" =>
        /\ FileLines(dlFile, <<>>) =
              IF dlMax.given
                THEN SubSeq(DlPassing, 1, DlMin(dlMax.n, Len(DlPassing)))
                ELSE DlPassing
        /\ dlMax.given => Len(FileLines(dlFile, <<>>)) <= dlMax.n

----------------------------------------------------------------------------
(* Finding the language-ID model file (model_utils.py,                     *)
(* ensure_fasttext_model).  The file system is the set of the candidate    *)
(* paths that exist; other processes may create and remove them.           *)

\* the mutation: the package directory is probed first
FtPathsPkgFirst == <<"pkg", "home", "web">>

\* [home_lid, pkg_lid, web_lid]
FtPaths == <<"home", "pkg", "web">>

\* ensure_fasttext_model() is called
FtCall ==
    /\ ftPc = "idle"
    /\ ftCalls < MaxEnsure
    /\ ftPc' = "probe"
    /\ ftLog' = <<>>
    /\ ftStarted' = FALSE
    /\ UNCHANGED <<ftFs, ftRet, ftCalls>>
    /\ UNCHANGED besideFt

\* one turn of the loop: path.exists(); the first path that exists is
\* returned, after the last path the download is started
FtProbe ==
    /\ ftPc = "probe"
    /\ LET path == FtPaths[Len(ftLog) + 1]
           found == path \in ftFs
       IN /\ ftLog' = Append(ftLog, [path |-> path, found |-> found])
          /\ IF found
               THEN /\ ftRet' = path
                    /\ ftPc' = "returned"
                    /\ UNCHANGED ftStarted
               ELSE IF Len(ftLog) + 1 = Len(FtPaths)
               THEN /\ ftPc' = "download"
                    /\ ftStarted' = TRUE
                    /\ UNCHANGED ftRet
               ELSE UNCHANGED <<ftPc, ftRet, ftStarted>>
    /\ UNCHANGED <<ftFs, ftCalls>>
    /\ UNCHANGED besideFt

\* download_fasttext_model(pkg_lid): urlretrieve writes the file and the
\* path is returned, or it fails and OSError is raised
FtDownload ==
    /\ ftPc = "download"
    /\ \/ /\ ftFs' = ftFs \cup {"pkg"}
          /\ ftRet' = "pkg"
          /\ ftPc' = "returned"
       \/ /\ ftRet' = "OSError"
          /\ ftPc' = "raised"
          /\ UNCHANGED ftFs
    /\ UNCHANGED <<ftLog, ftStarted, ftCalls>>
    /\ UNCHANGED besideFt

\* the caller has the result
FtFinish ==
    /\ ftPc \in {"returned", "raised"}
    /\ ftPc' = "idle"
    /\ ftCalls' = ftCalls + 1
    /\ UNCHANGED <<ftFs, ftLog, ftRet, ftStarted>>
    /\ UNCHANGED besideFt

\* another process creates or removes a model file
FtFsChange ==
    /\ \E p \in {"home", "pkg", "web"} :
         ftFs' = IF p \in ftFs THEN ftFs \ {p} ELSE ftFs \cup {p}
    /\ UNCHANGED <<ftPc, ftLog, ftRet, ftStarted, ftCalls>>
    /\ UNCHANGED besideFt

FtInit ==
    /\ ftFs \in SUBSET {"home", "pkg", "web"}
    /\ ftPc = "idle"
    /\ ftLog = <<>>
    /\ ftRet = "none"
    /\ ftStarted = FALSE
    /\ ftCalls = 0
    /\ CoreIdle
    /\ OnlyFt

FtNext == FtCall \/ FtProbe \/ FtDownload \/ FtFinish \/ FtFsChange

FtSpec == FtInit /\ [][FtNext]_vars

\* C25: the home directory, the package directory and the package's web
\* directory are probed in that order; the first path found to exist is
\* returned and no download is started; a download is started only when none
\* of the three was found, and then the downloaded path (the package
\* directory's) is what is returned.
C25_ProbeOrderThenDownload ==
    /\ Len(ftLog) <= 3
    /\ \A n \in 1..Len(ftLog) :
         /\ ftLog[n].path = <<"home", "pkg", "web">>[n]
         /\ n < Len(ftLog) => ~ftLog[n].found
    /\ (ftPc = "returned" /\ ~ftStarted) =>
         /\ ftLog[Len(ftLog)].found
         /\ ftRet = ftLog[Len(ftLog)].path
    /\ ftStarted <=> (Len(ftLog) = 3 /\ ~ftLog[3].found)
    /\ ftPc = "download" => ftStarted
    /\ (ftPc = "returned" /\ ftStarted) => ftRet = "pkg"
    /\ ftPc = "raised" => ftStarted

C25_Witness ==
    /\ ftPc = "returned" /\ ftRet = "web" /\ Len(ftLog) = 3 /\ ~ftStarted
    /\ ftCalls = 1

\* a download followed the three probes and its path was returned
C25_WitnessDownload ==
    /\ ftPc = "returned" /\ ftStarted /\ ftRet = "pkg"

----------------------------------------------------------------------------
(* The filter_russian command (cli/filter_russian.py, main) on one line of *)
(* input: every token is judged by is_russian_token, then by the           *)
(* orthography fallback when --fallback-orth is given, and is written,     *)
(* dropped or replaced by <RU>.                                            *)

FrTokens == {Privet, MirUp, Hello}

\* the token written for a masked token
RuMask == <<"<", "R", "U", ">">>

\* if fallback_orth and not decision and len(t) >= min_len:
\*     decision = RU_ONLY.fullmatch(t) is not None
FrDecision(tok, r) ==
    LET decision == IsRussianToken(tok, frArgs.thr, frArgs.min_len, r.labels,
                                   r.confs, frArgs.stoplist, frArgs.margin)
    IN IF frArgs.fallback_orth /\ ~decision /\ Len(Lower(tok)) >= frArgs.min_len
         THEN RU_ONLY(Lower(tok))
         ELSE decision

\* one turn of the loop over line.strip().split()
FrToken ==
    /\ frPc = "loop"
    /\ frPos < Len(frLine)
    /\ \E r \in {a \in AnyReplies(PredictK) : Len(a.confs) = Len(a.labels)} :
         LET tok == frLine[frPos + 1] IN
         IF ~FrDecision(tok, r)
           THEN /\ frOut' = Append(frOut, tok)
                /\ frLog' = Append(frLog, "kept")
           ELSE IF frArgs.mode = "mask"
           THEN /\ frOut' = Append(frOut, RuMask)
                /\ frLog' = Append(frLog, "masked")
           ELSE /\ frLog' = Append(frLog, "dropped")
                /\ UNCHANGED frOut
    /\ frPos' = frPos + 1
    /\ UNCHANGED <<frLine, frArgs, frPc>>
    /\ UNCHANGED besideFr

\* print(" ".join(out), file=output)
FrPrint ==
    /\ frPc = "loop"
    /\ frPos = Len(frLine)
    /\ frOut' = Join(frOut, <<" ">>)
    /\ frPc' = "printed"
    /\ UNCHANGED <<frLine, frArgs, frPos, frLog>>
    /\ UNCHANGED besideFr

FrInit ==
    /\ frLine \in SeqsUpTo(FrTokens, MaxLine)
    /\ frArgs \in [mode : {"drop", "mask"}, thr : {0, 128}, min_len : MinLens,
                    stoplist : Stoplists, margin : {DefaultMargin, 64},
                    fallback_orth : BOOLEAN]
    /\ frPos = 0
    /\ frOut = <<>>
    /\ frLog = <<>>
    /\ frPc = "loop"
    /\ CoreIdle
    /\ OnlyFr

FrNext == FrToken \/ FrPrint

FrSpec == FrInit /\ [][FrNext]_vars

\* C26: a token whose lower-case form is in the stoplist is never dropped
\* and never masked, whatever the threshold, margin, mode and
\* --fallback-orth; the tokens that are not Russian are written unchanged
\* and in their order.
C26_StoplistedTokenKept ==
    \A n \in 1..Len(frLog) :
        Lower(frLine[n]) \in frArgs.stoplist => frLog[n] = "kept"

\* without --fallback-orth the stoplist protects its tokens
FrStoplistedKeptWithoutFallback ==
    \A n \in 1..Len(frLog) :
        (Lower(frLine[n]) \in frArgs.stoplist /\ ~frArgs.fallback_orth)
            => frLog[n] = "kept"

----------------------------------------------------------------------------
(* pipeline_transliterate (web/web_utils.py) called from several threads.  *)
(* _lazy_pipeline() gives every call the one pipeline object; the call     *)
(* writes its mode into the object's mode attribute and process            *)
(* (pipeline.py) reads the attribute once for every token.                 *)

PlModes == {"latin", "ipa"}

\* tokens with the language predict_tokens gives them
PlTokens == {[tok |-> "kk_word", lang |-> "kk"], [tok |-> "ru_word", lang |-> "ru"]}

\* transliterate_token(token, lang, mode): to_latin or to_ipa for kk and ky,
\* the token itself otherwise
TransliterateToken(w, mode) ==
    IF w.lang \in {"kk", "ky"}
      THEN [tok |-> w.tok, via |-> IF mode = "latin" THEN "to_latin" ELSE "to_ipa"]
      ELSE [tok |-> w.tok, via |-> "unchanged"]

PlIdle == [pc |-> "idle", mode |-> "none", tokens |-> <<>>, done |-> <<>>]

\* pipeline_transliterate(text, mode) is called; the mode is valid
PlCall(c) ==
    /\ plCalls[c].pc \in {"idle", "returned"}
    /\ \E m \in PlModes, ws \in SeqsUpTo(PlTokens, MaxWords) :
         plCalls' = [plCalls EXCEPT ![c] = [pc |-> "set", mode |-> m,
                                            tokens |-> ws, done |-> <<>>]]
    /\ UNCHANGED plMode
    /\ UNCHANGED besidePl

\* pipeline = _lazy_pipeline(); pipeline.mode = mode
PlSetMode(c) ==
    /\ plCalls[c].pc = "set"
    /\ plMode' = plCalls[c].mode
    /\ plCalls' = [plCalls EXCEPT ![c].pc = "process"]
    /\ UNCHANGED besidePl

\* one element of the list comprehension of process:
\* transliterate_token(token, lang, self.mode)
PlToken(c) ==
    /\ plCalls[c].pc = "process"
    /\ Len(plCalls[c].done) < Len(plCalls[c].tokens)
    /\ plCalls' = [plCalls EXCEPT ![c].done =
                      Append(@, TransliterateToken(
                                    plCalls[c].tokens[Len(plCalls[c].done) + 1],
                                    plMode))]
    /\ UNCHANGED plMode
    /\ UNCHANGED besidePl

\* process returns the detokenized result
PlReturn(c) ==
    /\ plCalls[c].pc = "process"
    /\ Len(plCalls[c].done) = Len(plCalls[c].tokens)
    /\ plCalls' = [plCalls EXCEPT ![c].pc = "returned"]
    /\ UNCHANGED plMode
    /\ UNCHANGED besidePl

PlInit ==
    /\ plMode = "latin"
    /\ plCalls = [c \in Threads |-> PlIdle]
    /\ CoreIdle
    /\ OnlyPl

PlNext ==
    \E c \in Threads : PlCall(c) \/ PlSetMode(c) \/ PlToken(c) \/ PlReturn(c)

PlSpec == PlInit /\ [][PlNext]_vars

\* C27: a call of pipeline_transliterate returns the text transliterated in
\* the mode that call asked for, for every token, also while calls with
\* another mode run on the shared pipeline.
C27_OwnModeForEveryToken ==
    \A c \in Threads :
        plCalls[c].pc = "returned" =>
            \A n \in 1..Len(plCalls[c].tokens) :
                plCalls[c].done[n] =
                    TransliterateToken(plCalls[c].tokens[n], plCalls[c].mode)

----------------------------------------------------------------------------
(* Logging configuration of the command line (logging_config.py, setup;    *)
(* cli/__init__.py, main; patches.py, imported by the package's            *)
(* __init__.py).  The process starts with TURKIC_LOG_LEVEL set or unset,   *)
(* imports the package, runs the root command with --log-level, then a     *)
(* sub-command.                                                            *)

LogLevels == {"DEBUG", "INFO", "WARNING", "ERROR", "CRITICAL"}

\* _env_level(): (os.environ.get("TURKIC_LOG_LEVEL") or "INFO").upper()
EnvLevel(env) == IF env = "unset" THEN "INFO" ELSE env

\* setup() under lru_cache(maxsize=1): the first call sets the root logger's
\* level from the environment, later calls return the cached logger
LgSetup(at) ==
    IF lgCached
      THEN UNCHANGED <<lgRoot, lgCached, lgRanAt>>
      ELSE /\ lgRoot' = EnvLevel(lgEnv')
           /\ lgCached' = TRUE
           /\ lgRanAt' = at

\* import turkic_translit: __init__.py imports patches, whose module body
\* calls setup()
LgImport ==
    /\ lgPc = "start"
    /\ lgPc' = "imported"
    /\ UNCHANGED <<lgEnv, lgArg>>
    /\ LgSetup("import")
    /\ UNCHANGED besideLg

\* the root command: os.environ["TURKIC_LOG_LEVEL"] = log_level.upper();
\* _log_setup()
LgMain ==
    /\ lgPc = "imported"
    /\ lgPc' = "main"
    /\ lgEnv' = lgArg
    /\ UNCHANGED lgArg
    /\ LgSetup("main")
    /\ UNCHANGED besideLg

\* a sub-command (filter_russian.main) calls _log_setup() again
LgCommand ==
    /\ lgPc = "main"
    /\ lgPc' = "command"
    /\ UNCHANGED <<lgEnv, lgArg>>
    /\ LgSetup("command")
    /\ UNCHANGED besideLg

\* the root logger of a fresh interpreter is at WARNING
LgInit ==
    /\ lgEnv \in LogLevels \cup {"unset"}
    /\ lgArg \in LogLevels
    /\ lgRoot = "WARNING"
    /\ lgCached = FALSE
    /\ lgRanAt = "never"
    /\ lgPc = "start"
    /\ CoreIdle
    /\ OnlyLg

LgNext == LgImport \/ LgMain \/ LgCommand

LgSpec == LgInit /\ [][LgNext]_vars

\* C28: logging is configured by the entrypoint, not at import time: once
\* the root command has run with --log-level L the root logger's level is L,
\* and the one run of setup() came after the entrypoint set the level.
C28_RootLevelIsRequested ==
    lgPc \in {"main", "command"} =>
        /\ lgRoot = lgArg
        /\ lgRanAt = "main"

\* the level exported by the root command is the requested one
LgEnvIsRequested == lgPc \in {"main", "command"} => lgEnv = lgArg

----------------------------------------------------------------------------
(* download_corpus_to_file (web/web_utils.py): sentences of an unfiltered  *)
(* driver stream are cleaned, optionally filtered by predicted language    *)
(* and probability, and written one per line.  The stream is any sequence  *)
(* of sentences; the classifier answers anything.                         *)

\* total_processed >= max_lines * 50
SafetyFactor == 50

DcSentences == {<<" ">>, <<"\r">>, <<"a">>, <<"a", "\n", "b">>}

\* the corpus language asked for, and what the classifier may predict
DcLang == "kk"
DcPredicted == {"kk", "ru"}

\* sentence.replace("\n", " ").replace("\r", " ").strip()
Clean(s) ==
    Strip([n \in 1..Len(s) |-> IF s[n] \in {"\n", "\r"} THEN " " ELSE s[n]])

\* the mutation: the probability is not compared
DcSkipsWrongLanguageOnly(pred, prob) == pred # DcLang

\* if pred_lang != lang or pred_prob < prob_threshold: skip
DcSkips(pred, prob) == pred # DcLang \/ prob < dcArgs.prob_threshold

Limited == dcArgs.max_lines.given

\* the longest stream of the model: one sentence beyond the safety net of a
\* limited run, MaxCorpus sentences for an unlimited one
StreamCap ==
    IF Limited THEN SafetyFactor * dcArgs.max_lines.n + 1 ELSE MaxCorpus

NewlinesIn(s) == Cardinality({n \in 1..Len(s) : s[n] = "\n"})

\* the stream has a sentence and the limit is reached: break
DcLimit ==
    /\ dcPc = "loop"
    /\ Limited /\ dcI >= dcArgs.max_lines.n
    /\ dcPc' = "done"
    /\ UNCHANGED <<dcArgs, dcI, dcRemoved, dcTotal, dcNewlines, dcLast>>
    /\ UNCHANGED besideDc

\* the safety net: the sentence is counted and the loop is left
DcSafetyNet ==
    /\ dcPc = "loop"
    /\ ~(Limited /\ dcI >= dcArgs.max_lines.n)
    /\ Limited /\ dcArgs.filter_langid
    /\ dcTotal + 1 >= dcArgs.max_lines.n * SafetyFactor
    /\ dcTotal' = dcTotal + 1
    /\ dcPc' = "done"
    /\ UNCHANGED <<dcArgs, dcI, dcRemoved, dcNewlines, dcLast>>
    /\ UNCHANGED besideDc

\* one sentence goes through the body of the loop
DcSentence ==
    /\ dcPc = "loop"
    /\ dcTotal < StreamCap
    /\ ~(Limited /\ dcI >= dcArgs.max_lines.n)
    /\ ~(Limited /\ dcArgs.filter_langid
           /\ dcTotal + 1 >= dcArgs.max_lines.n * SafetyFactor)
    /\ dcTotal' = dcTotal + 1
    /\ \E s \in DcSentences, pred \in DcPredicted, prob \in {0, 128} :
         LET clean == Clean(s) IN
         IF clean = <<>>
           THEN /\ dcLast' = [clean |-> clean, pred |-> "none", prob |-> 0,
                              written |-> FALSE]
                /\ UNCHANGED <<dcI, dcRemoved, dcNewlines>>
           ELSE IF dcArgs.filter_langid /\ DcSkips(pred, prob)
           THEN /\ dcRemoved' = dcRemoved + 1
                /\ dcLast' = [clean |-> clean, pred |-> pred, prob |-> prob,
                              written |-> FALSE]
                /\ UNCHANGED <<dcI, dcNewlines>>
           ELSE /\ dcI' = dcI + 1
                /\ dcNewlines' = dcNewlines + NewlinesIn(clean) + 1
                /\ dcLast' = [clean |-> clean,
                              pred |-> IF dcArgs.filter_langid THEN pred
                                       ELSE "none",
                              prob |-> IF dcArgs.filter_langid THEN prob ELSE 0,
                              written |-> TRUE]
                /\ UNCHANGED dcRemoved
    /\ UNCHANGED <<dcArgs, dcPc>>
    /\ UNCHANGED besideDc

\* the stream is exhausted
DcExhausted ==
    /\ dcPc = "loop"
    /\ dcPc' = "done"
    /\ UNCHANGED <<dcArgs, dcI, dcRemoved, dcTotal, dcNewlines, dcLast>>
    /\ UNCHANGED besideDc

DcInit ==
    /\ dcArgs \in [max_lines : {[given |-> FALSE, n |-> 0]} \cup
                                {[given |-> TRUE, n |-> n] : n \in 0..MaxLines},
                    filter_langid : BOOLEAN, prob_threshold : {0, 128}]
    /\ dcI = 0
    /\ dcRemoved = 0
    /\ dcTotal = 0
    /\ dcNewlines = 0
    /\ dcLast = [clean |-> <<>>, pred |-> "none", prob |-> 0, written |-> FALSE]
    /\ dcPc = "loop"
    /\ CoreIdle
    /\ OnlyDc

DcNext == DcLimit \/ DcSafetyNet \/ DcSentence \/ DcExhausted

DcSpec == DcInit /\ [][DcNext]_vars

\* C29: with max_lines = N no more than N lines are written; a sentence is
\* written only if it is not blank after cleaning and, when filtering, its
\* predicted language is the requested one with probability at least
\* prob_threshold; when filtering, at most 50 * N sentences are processed;
\* lines written plus lines removed never exceed the sentences processed.
C29_WriteBudgetAndFilter ==
    /\ Limited => dcNewlines <= dcArgs.max_lines.n
    /\ dcNewlines = dcI
    /\ dcLast.written =>
         /\ dcLast.clean # <<>>
         /\ dcArgs.filter_langid =>
              /\ dcLast.pred = "kk"
              /\ dcLast.prob >= dcArgs.prob_threshold
    /\ (Limited /\ dcArgs.filter_langid) =>
         dcTotal <= 50 * dcArgs.max_lines.n
    /\ dcI + dcRemoved <= dcTotal

\* the safety net stopped a filtered run that had written nothing
C29_Witness ==
    /\ dcPc = "done" /\ dcArgs.filter_langid
    /\ dcArgs.max_lines = [given |-> TRUE, n |-> 2]
    /\ dcTotal = 100 /\ dcI = 1 /\ dcRemoved >= 1 /\ dcLast.written

----------------------------------------------------------------------------
(* GradioLogHandler (web/web_utils.py): emit appends the formatted record  *)
(* to the list in self.buffer, dump joins that list and puts a new list in *)
(* its place.  logging.Handler.handle holds the handler's lock around      *)
(* emit, so emits follow one another; dump takes no lock and runs on the   *)
(* thread of the UI callback (web/tabs/mutual.py, _do_mutual).  ghLists    *)
(* holds every list object made so far, ghCur is the one in self.buffer.   *)

\* self.format(record) of the n-th record: n letters
FormatRecord(n) == [k \in 1..n |-> "x"]

\* emit evaluates self.buffer
GhEmitLoad ==
    /\ ghEmit.pc = "idle"
    /\ ghDone < MaxRecords
    /\ ghEmit' = [pc |-> "loaded", ref |-> ghCur]
    /\ UNCHANGED <<ghLists, ghCur, ghDone, ghDump, ghDumps>>
    /\ UNCHANGED besideGh

\* .append(self.format(record)) on the list emit holds
GhEmitAppend ==
    /\ ghEmit.pc = "loaded"
    /\ ghLists' = [ghLists EXCEPT ![ghEmit.ref] =
                      Append(@, FormatRecord(ghDone + 1))]
    /\ ghDone' = ghDone + 1
    /\ ghEmit' = [pc |-> "idle", ref |-> 0]
    /\ UNCHANGED <<ghCur, ghDump, ghDumps>>
    /\ UNCHANGED besideGh

\* dump evaluates "\n".join(self.buffer)
GhDumpJoin ==
    /\ ghDump.pc = "idle"
    /\ Len(ghDumps) < MaxDumps
    /\ ghDump' = [pc |-> "joined", out |-> Join(ghLists[ghCur], <<"\n">>)]
    /\ UNCHANGED <<ghLists, ghCur, ghEmit, ghDone, ghDumps>>
    /\ UNCHANGED besideGh

\* dump stores a new list in self.buffer and returns the joined text
GhDumpAssign ==
    /\ ghDump.pc = "joined"
    /\ ghLists' = Append(ghLists, <<>>)
    /\ ghCur' = Len(ghLists) + 1
    /\ ghDumps' = Append(ghDumps, ghDump.out)
    /\ ghDump' = [pc |-> "idle", out |-> <<>>]
    /\ UNCHANGED <<ghEmit, ghDone>>
    /\ UNCHANGED besideGh

GhInit ==
    /\ ghLists = <<<<>>>>
    /\ ghCur = 1
    /\ ghEmit = [pc |-> "idle", ref |-> 0]
    /\ ghDone = 0
    /\ ghDump = [pc |-> "idle", out |-> <<>>]
    /\ ghDumps = <<>>
    /\ CoreIdle
    /\ OnlyGh

GhNext == GhEmitLoad \/ GhEmitAppend \/ GhDumpJoin \/ GhDumpAssign

GhSpec == GhInit /\ [][GhNext]_vars

NonEmptyText(s) == s # <<>>

\* C30: every record passed to emit is returned by exactly one later dump,
\* in emission order, also when emit runs on another thread while dump
\* runs: the texts returned so far, followed by what the next dump would
\* return, are the emitted records in order, each once.
C30_EveryRecordDumpedOnce ==
    Join(SelectSeq(Append(ghDumps, Join(ghLists[ghCur], <<"\n">>)),
                   NonEmptyText), <<"\n">>)
        = Join([n \in 1..ghDone |-> FormatRecord(n)], <<"\n">>)

====
